---- MODULE Spec2Model ----
(***************************************************************************)
(* Usage-entitlement gate of the chat proxy: the rows of user_subscriptions *)
(* in the shared store, the chat-proxy requests in flight against them (one *)
(* step per awaited store / upstream call), and the payment webhook.        *)
(*                                                                          *)
(* The repository holds several versions of the proxy handler.  Each is     *)
(* modelled from its own source; `handler` says which one is deployed:      *)
(*   "rpc_fallback"  src/netlify/functions/chat-proxy.ts:30-170             *)
(*   "legacy"        src/netlify/functions/chat-proxy.ts:210-429            *)
(*   "atomic_rpc"    src/TECH_STACK.md:383-590                              *)
(*   "weekly"        src/TECH_STACK.md:705-942                              *)
(* Time is counted in days.                                                 *)
(***************************************************************************)
EXTENDS Integers, FiniteSets, Sequences, TLC

VARIABLES
    handler,    \* the deployed version of the proxy handler
    store,      \* user_subscriptions: account id -> row
    req,        \* per request: position in the handler and its locals
    user,       \* per request: the account its bearer token resolves to
    now,        \* the clock (Date.now()), in days
    events,     \* number of webhook calls still to arrive
    hook,       \* per invocation of the webhook function: the call it handles
    initial,    \* the store as it was at the start (history, never read by the code)
    local       \* the extension's local storage: trial usage count and license flag

vars == <<handler, store, req, user, now, events, hook, initial, local>>

----------------------------------------------------------------------------
(* Bounds of the model *)

NumReqs == 2

MaxCredits == 2

MaxNow == 8

MaxEvents == 1

\* fragments the upstream streams deliver in all
MaxChunks == 2

(* Program constants *)

WEEKLY_LIMIT == 375

WEEK == 7

TRIAL_CREDITS == 5

UNLIMITED == -1

\* SQL NULL / JavaScript null in a numeric column
NULL == -100

\* LICENSE_CONFIG.TRIAL_LIMIT
TRIAL_LIMIT == 5

\* sendMessageToActiveTab(payload, maxRetries = 3)
DEFAULT_MAX_RETRIES == 3

\* local storage before anything was written to it (a flag that was never
\* set reads as false: `|| false`)
NoLocal == [usageCount |-> NULL, hasLicense |-> FALSE]

Reqs == 1..NumReqs

Accounts == {"u1"}

\* accounts that have a row in the table and take no part unless a
\* specification addresses them
Bystanders == {"u2"}

AllAccounts == Accounts \cup Bystanders

H_FALLBACK == "rpc_fallback"
H_LEGACY == "legacy"
H_ATOMIC == "atomic_rpc"
H_WEEKLY == "weekly"

\* the weekly version with the debug event, src/TECH_STACK.md:944-1314: the
\* same code up to the upstream call
H_DEBUG == "weekly_debug"

WeeklyVersions == {H_WEEKLY, H_DEBUG}

Handlers == {H_FALLBACK, H_LEGACY, H_ATOMIC, H_WEEKLY}

\* the versions that meter subscription usage (the legacy one serves
\* pro_subscription accounts without any ledger)
MeteringHandlers == {H_FALLBACK, H_ATOMIC, H_WEEKLY}

AllHandlers == Handlers \cup {H_DEBUG}

----------------------------------------------------------------------------
(* Rows of user_subscriptions *)

\* `copies` counts the rows of the table that carry the account's user_id
Row(plan, credits, status, usage, reset, customer, subId, periodEnd) ==
    [exists |-> TRUE, copies |-> 1, plan_type |-> plan, credits_balance |-> credits,
     subscription_status |-> status, usage_count |-> usage,
     last_reset_at |-> reset, stripe_customer_id |-> customer,
     stripe_subscription_id |-> subId, current_period_end |-> periodEnd]

\* no row for the account (select ... .single() returns an error)
NoRow ==
    [exists |-> FALSE, copies |-> 0, plan_type |-> "free", credits_balance |-> 0,
     subscription_status |-> "active", usage_count |-> 0,
     last_reset_at |-> 0, stripe_customer_id |-> FALSE,
     stripe_subscription_id |-> FALSE, current_period_end |-> FALSE]

\* insert({user_id, plan_type: "free", credits_balance: 5, usage_count: 0,
\*         last_reset_at: now}); the other columns take the table defaults
DefaultRow(t) ==
    Row("free", TRIAL_CREDITS, "active", 0, t, FALSE, FALSE, FALSE)

\* the legacy insert names neither usage_count nor last_reset_at
LegacyDefaultRow ==
    Row("free", TRIAL_CREDITS, "active", 0, 0, FALSE, FALSE, FALSE)

\* user_id is the primary key of user_subscriptions: an insert of a user_id
\* that has a row is refused
PrimaryKeyConflictMutant(row) == FALSE

PrimaryKeyConflict(row) == row.exists

\* the table after a row was inserted for a user_id that had the row old
Inserted(old, row) == [row EXCEPT !.copies = old.copies + 1]

\* JavaScript `x || 0` and the numeric coercion of null in `x <= 0`, `x - 1`
OrZero(x) == IF x = NULL THEN 0 ELSE x

----------------------------------------------------------------------------
(* The entitlement checks the handlers make on the row they read *)

\* credits_balance <= 0
CreditsExhausted(c) == OrZero(c) <= 0

\* a check that lets a subscription with a failed payment through
InactiveMutant(sub) == sub.subscription_status \notin {"active", "past_due"}

\* subscription_status !== "active"
Inactive(sub) == sub.subscription_status # "active"

\* usage_count >= WEEKLY_LIMIT
AtLimitMutant(u) == OrZero(u) > WEEKLY_LIMIT

AtLimit(u) == OrZero(u) >= WEEKLY_LIMIT

\* now - lastReset > WEEK_MS   (diffDays > 7)
PeriodElapsed(reset, t) == t - OrZero(reset) > WEEK

----------------------------------------------------------------------------
(* Stored procedures called through supabase.rpc.  Their SQL is not in the  *)
(* repository; they follow the ledger contract of the specification.        *)

\* deduct_credit: UPDATE ... SET credits_balance = credits_balance - 1
\*                WHERE credits_balance > 0 RETURNING credits_balance;
\* -1 when no row was updated
DeductCreditRow(row) ==
    IF row.exists /\ row.credits_balance # NULL /\ row.credits_balance > 0
    THEN [row EXCEPT !.credits_balance = @ - 1]
    ELSE row

DeductCreditResult(row) ==
    IF row.exists /\ row.credits_balance # NULL /\ row.credits_balance > 0
    THEN row.credits_balance - 1
    ELSE -1

\* increment_usage: increments usage_count iff it is under the limit
IncrementUsageRow(row) ==
    IF row.exists /\ OrZero(row.usage_count) < WEEKLY_LIMIT
    THEN [row EXCEPT !.usage_count = OrZero(@) + 1]
    ELSE row

\* reset_weekly_usage: resets usage_count and last_reset_at iff the period
\* has elapsed
ResetWeeklyUsageRow(row, t) ==
    IF row.exists /\ PeriodElapsed(row.last_reset_at, t)
    THEN [row EXCEPT !.usage_count = 0, !.last_reset_at = t]
    ELSE row

----------------------------------------------------------------------------
(* Requests *)

\* the columns of the row read (`subscription`) that a handler reads again
\* after its first awaited write
Snapshot(row) ==
    [plan_type |-> row.plan_type, credits_balance |-> row.credits_balance,
     usage_count |-> row.usage_count]

\* a request is followed as a POST with a bearer token the identity provider
\* accepts, unless its first step says otherwise
IdleReq ==
    [pc |-> "idle", method |-> "POST", credentials |-> "valid",
     sub |-> Snapshot(NoRow), usageCount |-> 0, at |-> 0, before |-> 0,
     charged |-> FALSE, didReset |-> FALSE, sinceReset |-> FALSE,
     rolledBack |-> FALSE,
     forwarded |-> FALSE, upstream |-> "none", logged |-> FALSE,
     logOutcome |-> "ok", logFailed |-> FALSE,
     rollbackOutcome |-> "ok",
     call |-> [pc |-> "none", session |-> "none", response |-> "none",
               code |-> "", error |-> "", sent |-> <<>>, body |-> <<>>,
               ending |-> "none", pos |-> 0, buffer |-> <<>>, calls |-> <<>>],
     builder |-> "none", contextType |-> "page", contextLen |-> 0,
     embedded |-> NULL,
     storedKey |-> "", apiKey |-> "", allowed |-> TRUE, token |-> "",
     route |-> "none",
     gate |-> "checked",
     trialInfo |-> [usageCount |-> 0, hasLicense |-> FALSE,
                    remaining |-> TRIAL_LIMIT, isTrialExpired |-> FALSE],
     phase |-> "none", outcome |-> "none", currentCount |-> 0,
     send |-> [pc |-> "none", query |-> "ok",
               activeTab |-> [id |-> FALSE, url |-> "", status |-> "complete"],
               maxRetries |-> DEFAULT_MAX_RETRIES, attempt |-> 0, log |-> <<>>,
               result |-> [success |-> FALSE, error |-> "", shouldRetry |-> FALSE,
                           isRestrictedPage |-> FALSE]],
     sync |-> [pc |-> "none", sub |-> NoRow,
               info |-> [usageCount |-> 0, hasLicense |-> FALSE,
                         remaining |-> TRIAL_LIMIT, isTrialExpired |-> FALSE]],
     wire |-> [headers |-> <<>>, model |-> "", max_tokens |-> NULL],
     stream |-> "none", read |-> <<>>, out |-> <<>>,
     model |-> "undefined", max_tokens |-> NULL,
     sentModel |-> "none", sentMaxTokens |-> NULL,
     status |-> 0, code |-> "", credits_remaining |-> NULL]

\* the request goes on to its next awaited call
Goto(q, pc) == [q EXCEPT !.pc = pc]

\* the response is returned; the invocation's locals are gone
Respond(q, status, code) ==
    [q EXCEPT !.pc = "done", !.status = status, !.code = code,
              !.sub = Snapshot(NoRow), !.usageCount = 0, !.at = 0, !.before = 0]

\* the 403 answer to a trial without credits: code CREDITS_EXHAUSTED and
\* credits_remaining: 0 (chat-proxy.ts:316-325; TECH_STACK.md:499-503,
\* 517-521, 830-834, 1190-1194); the answer of chat-proxy.ts:90-92 is a 402
\* without that field
Exhausted(q) ==
    [Respond(q, 403, "CREDITS_EXHAUSTED") EXCEPT !.credits_remaining = 0]

Acct(r) == user[r]

\* history: the row of account a has been reset since the start
ResetSinceStart(a) == store[a].last_reset_at # initial[a].last_reset_at

Terminal(r) == req[r].pc = "done"

InFlight(r) == req[r].pc \notin {"idle", "done"}

\* the request bodies a client can send: text that is not JSON, the JSON
\* null (destructuring it throws a TypeError), a body without a messages
\* array, with an empty one, with messages and a context that is not a
\* string (context.substring is not a function), and a well-formed body
Bodies ==
    {"invalid_json", "null", "no_messages", "empty_messages", "bad_context",
     "ok"}

\* the bodies whose messages pass `!messages || !Array.isArray(messages) ||
\* messages.length === 0`
WithMessages == {"bad_context", "ok"}

\* an exception leaves handleChatRequest, whose promise the handler returns
\* without awaiting it (chat-proxy.ts:267-270; TECH_STACK.md:756-759,
\* 1109-1112): the invocation is over and no Response was built
Rejects(q) == Respond(q, NULL, "")

\* openai.chat.completions.create either returns a stream or throws
UpstreamResults == {"ok", "failed"}

SetReq(r, q) == req' = [req EXCEPT ![r] = q]

\* .update(row) with no filter on user_id
SetRowMutant(a, row) == store' = [b \in DOMAIN store |-> row]

\* .update(row).eq("user_id", a), and the rpc functions' where user_id = a
SetRow(a, row) == store' = [store EXCEPT ![a] = row]

\* what an awaited .update() or .upsert() resolves with: no error, or an
\* error (the statement was not applied)
UpdateErrors == BOOLEAN

\* the table after an update of the row of account a that resolved with or
\* without an error
Updated(updateError, a, row) ==
    IF updateError THEN UNCHANGED store ELSE SetRow(a, row)

\* the model and the token cap of the versions that fix them
PRO_MODEL == "gpt-4o-mini"

PRO_MAX_TOKENS == 2048

\* the defaults of the destructured body, chat-proxy.ts:349
DEFAULT_MODEL == "gpt-4o-mini"

DEFAULT_MAX_TOKENS == 2048

\* what a client may put in the model and max_tokens fields of the body
\* ("undefined" and NULL: the field is absent)
ModelHints == {"undefined", "gpt-4o"}

TokenHints == {NULL, 2 * DEFAULT_MAX_TOKENS}

\* the `model` argument of openai.chat.completions.create for the body of q
SentModel(q) ==
    IF handler = H_LEGACY
    THEN IF q.model = "undefined" THEN DEFAULT_MODEL ELSE q.model
    ELSE IF handler = H_FALLBACK THEN "gpt-4o-mini" ELSE PRO_MODEL

\* its `max_tokens` argument; the rpc_fallback version passes none
SentMaxTokens(q) ==
    IF handler = H_LEGACY
    THEN IF q.max_tokens = NULL THEN DEFAULT_MAX_TOKENS ELSE q.max_tokens
    ELSE IF handler = H_FALLBACK THEN NULL ELSE PRO_MAX_TOKENS

\* the call to the upstream completion API was made with result res; when
\* it returned a stream, the ReadableStream that relays it is started
Forwarded(q, res) ==
    [q EXCEPT !.forwarded = TRUE, !.upstream = res,
              !.sentModel = SentModel(q),
              !.sentMaxTokens = SentMaxTokens(q),
              !.stream = IF res = "ok" THEN "open" ELSE "none"]

\* what the update of the catch block of a request can come to: the
\* awaited call resolves with or without an error, which is not looked at
RollbackOutcomes == {"ok", "failed"}

\* the row after the update of the catch block that was to leave `written`
RolledBackRow(q, row, written) ==
    IF q.rollbackOutcome = "ok" THEN written ELSE row

\* the status of the response returned after the update of the catch
\* block, were its error looked at
RollbackStatusMutant(q) == IF q.rollbackOutcome = "ok" THEN 500 ELSE 503

\* the status of the response returned after the update of the catch block
RollbackStatus(q) == 500

\* the response of the catch block
RollbackAnswer(q) ==
    [Respond(q, RollbackStatus(q), "") EXCEPT
        !.rolledBack = (q.rollbackOutcome = "ok")]

\* what the insert into usage_logs of a request can come to
LogOutcomes == {"ok", "failed"}

\* the insert fails and the failure reaches the caller
LoggedMutant(q) ==
    IF q.logOutcome = "ok"
    THEN [q EXCEPT !.logged = TRUE]
    ELSE [q EXCEPT !.logFailed = TRUE, !.stream = "errored"]

\* the row of usage_logs for the request is inserted (not awaited); a
\* failure goes to console.error
Logged(q) ==
    IF q.logOutcome = "ok"
    THEN [q EXCEPT !.logged = TRUE]
    ELSE [q EXCEPT !.logFailed = TRUE]

----------------------------------------------------------------------------
(* Authentication, common to every version of the handler *)

\* request r arrives: the requests are numbered in their order of arrival
Arrives(r) ==
    /\ req[r].pc = "idle"
    /\ \A o \in Reqs : o < r => req[o].pc # "idle"

\* what can be wrong with the Authorization header of a request: there is
\* none ("missing"), its value does not start with "Bearer "
\* ("not_bearer"), or it starts with "Bearer " and holds a token that
\* auth.getUser rejects ("rejected")
BadCredentials == {"missing", "not_bearer", "rejected"}

\* a POST that is answered 401: the header is missing; or it does not
\* start with "Bearer ", which the versions with the startsWith test refuse
\* as it is, while the rpc_fallback version (chat-proxy.ts:38-47), which
\* tests only that there is a header, hands its value to auth.getUser and
\* answers 401 when that rejects it; or the token is rejected
Unauthorized(r) ==
    /\ Arrives(r)
    /\ \E c \in BadCredentials :
         SetReq(r, Respond([req[r] EXCEPT !.credentials = c], 401, ""))
    /\ UNCHANGED <<handler, store, user, now, events, hook, initial, local>>

\* the CORS preflight: answered before authentication
Preflight(r) ==
    /\ Arrives(r)
    /\ SetReq(r, Respond([req[r] EXCEPT !.method = "OPTIONS",
                                        !.credentials = "missing"],
                         IF handler = H_FALLBACK THEN 200 ELSE 204, ""))
    /\ UNCHANGED <<handler, store, user, now, events, hook, initial, local>>

\* the versions that answer 405 to every method but POST and OPTIONS,
\* before they look at the Authorization header
MethodCheckingHandlers == {H_LEGACY, H_ATOMIC, H_WEEKLY, H_DEBUG}

MethodNotAllowed(r) ==
    /\ handler \in MethodCheckingHandlers
    /\ Arrives(r)
    /\ \E c \in BadCredentials \cup {"valid"} :
         SetReq(r, Respond([req[r] EXCEPT !.method = "GET", !.credentials = c],
                           405, ""))
    /\ UNCHANGED <<handler, store, user, now, events, hook, initial, local>>

----------------------------------------------------------------------------
(* Version "rpc_fallback": handler, src/netlify/functions/chat-proxy.ts     *)

\* lines 63-107 up to the first awaited write
FallbackEvaluate(q, sub, t) ==
    LET q1 == [q EXCEPT !.sub = Snapshot(sub)] IN
    IF sub.plan_type = "pro_subscription"
    THEN IF PeriodElapsed(sub.last_reset_at, t)
         THEN [Goto(q1, "reset") EXCEPT !.at = t]
         ELSE IF AtLimit(sub.usage_count)
              THEN Respond(q1, 429, "WEEKLY_LIMIT_REACHED")
              ELSE Goto(q1, "inc_rpc")
    ELSE IF CreditsExhausted(sub.credits_balance)
         THEN Respond(q1, 402, "CREDITS_EXHAUSTED")
         ELSE Goto(q1, "deduct_rpc")

\* auth of a request whose header is c, select ... .single(), and the
\* checks on the row read
FallbackSelectWith(r, c) ==
    /\ handler = H_FALLBACK
    /\ Arrives(r)
    /\ LET row == store[Acct(r)]
           q == [req[r] EXCEPT !.credentials = c] IN
         IF ~row.exists
         THEN SetReq(r, Respond(q, 403, ""))
         ELSE SetReq(r, FallbackEvaluate(q, row, now))
    /\ UNCHANGED <<handler, store, user, now, events, hook, initial, local>>

FallbackSelect(r) == FallbackSelectWith(r, "valid")

\* lines 38-47: a header that does not start with "Bearer " is not refused;
\* `replace("Bearer ", "")` leaves it as it is, and when auth.getUser
\* accepts it as a token the request is served like any other
FallbackNotBearer(r) == FallbackSelectWith(r, "not_bearer")

\* update({usage_count: 0, last_reset_at: now}), lines 73-76; the result
\* is not looked at, so an update that fails goes by unnoticed
FallbackReset(r) ==
    /\ handler = H_FALLBACK
    /\ req[r].pc = "reset"
    /\ \E updateError \in UpdateErrors :
         /\ Updated(updateError, Acct(r),
                    [store[Acct(r)] EXCEPT !.usage_count = 0,
                                           !.last_reset_at = req[r].at])
         /\ SetReq(r, [Goto(req[r], "inc_rpc") EXCEPT !.didReset = ~updateError,
                                                      !.at = 0])
    /\ UNCHANGED <<handler, user, now, events, hook, initial, local>>

\* rpc("increment_usage") succeeds; what it returns is not looked at
FallbackIncRpc(r) ==
    /\ handler = H_FALLBACK
    /\ req[r].pc = "inc_rpc"
    /\ LET row == store[Acct(r)]
           new == IncrementUsageRow(row) IN
         /\ SetRow(Acct(r), new)
         /\ SetReq(r, [Goto(req[r], "upstream") EXCEPT
                          !.charged = (new # row),
                          !.before = OrZero(row.usage_count),
                          !.sinceReset = ResetSinceStart(Acct(r))])
    /\ UNCHANGED <<handler, user, now, events, hook, initial, local>>

\* rpc("increment_usage") returns an error, then the fallback
\* update({usage_count: (subscription.usage_count || 0) + 1}), lines 83-88,
\* whose result is not looked at
FallbackIncFallback(r) ==
    /\ handler = H_FALLBACK
    /\ req[r].pc = "inc_rpc"
    /\ \E updateError \in UpdateErrors :
         LET row == store[Acct(r)] IN
         /\ Updated(updateError, Acct(r),
                    [row EXCEPT !.usage_count = OrZero(req[r].sub.usage_count) + 1])
         /\ SetReq(r, [Goto(req[r], "upstream") EXCEPT
                          !.charged = ~updateError,
                          !.before = OrZero(row.usage_count),
                          !.sinceReset = ResetSinceStart(Acct(r))])
    /\ UNCHANGED <<handler, user, now, events, hook, initial, local>>

\* rpc("deduct_credit") succeeds; what it returns is not looked at
FallbackDeductRpc(r) ==
    /\ handler = H_FALLBACK
    /\ req[r].pc = "deduct_rpc"
    /\ LET row == store[Acct(r)]
           new == DeductCreditRow(row) IN
         /\ SetRow(Acct(r), new)
         /\ SetReq(r, [Goto(req[r], "upstream") EXCEPT
                          !.charged = (new # row),
                          !.before = row.credits_balance])
    /\ UNCHANGED <<handler, user, now, events, hook, initial, local>>

\* rpc("deduct_credit") returns an error, then the fallback
\* update({credits_balance: subscription.credits_balance - 1}), lines 96-106;
\* when the update returns an error too the answer is 500 "Database error"
FallbackDeductFallback(r) ==
    /\ handler = H_FALLBACK
    /\ req[r].pc = "deduct_rpc"
    /\ \E updateError \in UpdateErrors :
         LET row == store[Acct(r)] IN
         /\ Updated(updateError, Acct(r),
                    [row EXCEPT
                       !.credits_balance = OrZero(req[r].sub.credits_balance) - 1])
         /\ IF updateError
            THEN SetReq(r, Respond(req[r], 500, ""))
            ELSE SetReq(r, [Goto(req[r], "upstream") EXCEPT
                              !.charged = TRUE,
                              !.before = row.credits_balance])
    /\ UNCHANGED <<handler, user, now, events, hook, initial, local>>

\* req.json(), the messages check (an empty array passes it), the system
\* message and the upstream call, lines 109-131; the catch block (161-167)
\* answers 500 and writes nothing: it gets what the upstream call throws,
\* the TypeError of destructuring null and the one of context.substring
FallbackUpstream(r) ==
    /\ handler = H_FALLBACK
    /\ req[r].pc = "upstream"
    /\ \E body \in Bodies :
         IF body \in {"invalid_json", "no_messages"}
         THEN SetReq(r, Respond(req[r], 400, ""))
         ELSE IF body \in {"null", "bad_context"}
         THEN SetReq(r, Respond(req[r], 500, ""))
         ELSE \E res \in UpstreamResults :
                IF res = "ok"
                THEN SetReq(r, Respond(Forwarded(req[r], res), 200, ""))
                ELSE SetReq(r, Respond(Forwarded(req[r], res), 500, ""))
    /\ UNCHANGED <<handler, store, user, now, events, hook, initial, local>>

----------------------------------------------------------------------------
(* Version "legacy": handler and handleChatRequest,                         *)
(* src/netlify/functions/chat-proxy.ts:210-429                              *)

\* handleChatRequest, lines 285-326, up to the first awaited write; a plan
\* that is none of the three passes every `if` and is forwarded as it is
LegacyEvaluate(q, sub) ==
    LET q1 == [q EXCEPT !.sub = Snapshot(sub)] IN
    IF sub.plan_type = "byok_license"
    THEN Respond(q1, 403, "USE_OWN_KEY")
    ELSE IF sub.plan_type = "pro_subscription"
    THEN IF Inactive(sub)
         THEN Respond(q1, 403, "SUBSCRIPTION_INACTIVE")
         ELSE Goto(q1, "upstream")
    ELSE IF sub.plan_type = "free"
    THEN IF CreditsExhausted(sub.credits_balance)
         THEN Exhausted(q1)
         ELSE Goto(q1, "charge")
    ELSE Goto(q1, "upstream")

\* auth and select ... .single()
LegacySelect(r) ==
    /\ handler = H_LEGACY
    /\ Arrives(r)
    /\ LET row == store[Acct(r)] IN
         IF ~row.exists
         THEN SetReq(r, Goto(req[r], "insert"))
         ELSE SetReq(r, LegacyEvaluate(req[r], row))
    /\ UNCHANGED <<handler, store, user, now, events, hook, initial, local>>

\* insert of the default row; user_id is the primary key, so the insert
\* fails when the row exists by now
LegacyInsert(r) ==
    /\ handler = H_LEGACY
    /\ req[r].pc = "insert"
    /\ IF PrimaryKeyConflict(store[Acct(r)])
       THEN /\ SetReq(r, Respond(req[r], 500, ""))
            /\ UNCHANGED store
       ELSE /\ SetRow(Acct(r), Inserted(store[Acct(r)], LegacyDefaultRow))
            /\ SetReq(r, LegacyEvaluate(req[r], LegacyDefaultRow))
    /\ UNCHANGED <<handler, user, now, events, hook, initial, local>>

\* update({credits_balance: credits_balance - 1}), lines 327-335; an error
\* of the update goes to console.error and the request goes on
LegacyCharge(r) ==
    /\ handler = H_LEGACY
    /\ req[r].pc = "charge"
    /\ \E updateError \in UpdateErrors :
         LET row == store[Acct(r)] IN
         /\ Updated(updateError, Acct(r),
                    [row EXCEPT
                       !.credits_balance = OrZero(req[r].sub.credits_balance) - 1])
         /\ SetReq(r, [Goto(req[r], "upstream") EXCEPT
                          !.charged = ~updateError,
                          !.before = row.credits_balance])
    /\ UNCHANGED <<handler, user, now, events, hook, initial, local>>

\* req.json(), the messages check, the upstream call (lines 338-410) and
\* the entry of the catch block; the destructuring of the body (line 349)
\* stands outside every try block
LegacyUpstream(r) ==
    /\ handler = H_LEGACY
    /\ req[r].pc = "upstream"
    /\ \E body \in Bodies :
         IF body = "null"
         THEN SetReq(r, Rejects(req[r]))
         ELSE IF body \notin WithMessages
         THEN SetReq(r, Respond(req[r], 400, ""))
         ELSE \E res \in UpstreamResults :
                IF res = "ok"
                THEN SetReq(r, Respond(Logged(Forwarded(req[r], res)), 200, ""))
                ELSE IF req[r].sub.plan_type = "free"
                     THEN SetReq(r, Goto(Forwarded(req[r], res), "rollback"))
                     ELSE SetReq(r, Respond(Forwarded(req[r], res), 500, ""))
    /\ UNCHANGED <<handler, store, user, now, events, hook, initial, local>>

\* the catch block: update({credits_balance: credits_balance}), then 500
LegacyRollback(r) ==
    /\ handler = H_LEGACY
    /\ req[r].pc = "rollback"
    /\ SetRow(Acct(r), RolledBackRow(req[r], store[Acct(r)],
                          [store[Acct(r)] EXCEPT
                             !.credits_balance = req[r].sub.credits_balance]))
    /\ SetReq(r, RollbackAnswer(req[r]))
    /\ UNCHANGED <<handler, user, now, events, hook, initial, local>>

----------------------------------------------------------------------------
(* Version "weekly": handler, checkWeeklyReset and handleChatRequest,       *)
(* src/TECH_STACK.md:677-942                                                *)

\* the limit check and what follows it, lines 795-806
WeeklyLimitCheck(q, usageCount) ==
    IF AtLimit(usageCount)
    THEN Respond(q, 429, "WEEKLY_LIMIT_REACHED")
    ELSE [Goto(q, "inc") EXCEPT !.usageCount = usageCount]

\* handleChatRequest, lines 771-835, up to the first awaited write
WeeklyEvaluate(q, sub, t) ==
    LET q1 == [q EXCEPT !.sub = Snapshot(sub)] IN
    IF sub.plan_type = "byok_license"
    THEN Respond(q1, 403, "USE_OWN_KEY")
    ELSE IF sub.plan_type = "pro_subscription"
    THEN IF Inactive(sub)
         THEN Respond(q1, 403, "SUBSCRIPTION_INACTIVE")
         ELSE IF PeriodElapsed(sub.last_reset_at, t)
              THEN [Goto(q1, "reset") EXCEPT !.at = t]
              ELSE WeeklyLimitCheck(q1, OrZero(sub.usage_count))
    ELSE IF sub.plan_type = "free"
    THEN IF CreditsExhausted(sub.credits_balance)
         THEN Exhausted(q1)
         ELSE Goto(q1, "charge")
    ELSE Goto(q1, "upstream")

WeeklySelect(r) ==
    /\ handler \in WeeklyVersions
    /\ Arrives(r)
    /\ LET row == store[Acct(r)] IN
         IF ~row.exists
         THEN SetReq(r, [Goto(req[r], "insert") EXCEPT !.at = now])
         ELSE SetReq(r, WeeklyEvaluate(req[r], row, now))
    /\ UNCHANGED <<handler, store, user, now, events, hook, initial, local>>

WeeklyInsert(r) ==
    /\ handler \in WeeklyVersions
    /\ req[r].pc = "insert"
    /\ IF PrimaryKeyConflict(store[Acct(r)])
       THEN /\ SetReq(r, Respond(req[r], 500, ""))
            /\ UNCHANGED store
       ELSE /\ SetRow(Acct(r), Inserted(store[Acct(r)], DefaultRow(req[r].at)))
            /\ SetReq(r, WeeklyEvaluate([req[r] EXCEPT !.at = 0],
                                         DefaultRow(req[r].at), now))
    /\ UNCHANGED <<handler, user, now, events, hook, initial, local>>

\* checkWeeklyReset, lines 686-700: update({usage_count: 0, last_reset_at:
\* now}), then the limit check on the count 0; when the update returns an
\* error, the limit check on the count that was read
WeeklyReset(r) ==
    /\ handler \in WeeklyVersions
    /\ req[r].pc = "reset"
    /\ \E updateError \in UpdateErrors :
         /\ Updated(updateError, Acct(r),
                    [store[Acct(r)] EXCEPT !.usage_count = 0,
                                           !.last_reset_at = req[r].at])
         /\ SetReq(r, WeeklyLimitCheck(
                        [req[r] EXCEPT !.didReset = ~updateError, !.at = 0],
                        IF updateError THEN OrZero(req[r].sub.usage_count) ELSE 0))
    /\ UNCHANGED <<handler, user, now, events, hook, initial, local>>

\* update({usage_count: usageCount + 1}), lines 808-820; an error of the
\* update goes to console.error and the request goes on
WeeklyInc(r) ==
    /\ handler \in WeeklyVersions
    /\ req[r].pc = "inc"
    /\ \E updateError \in UpdateErrors :
         LET row == store[Acct(r)] IN
         /\ Updated(updateError, Acct(r),
                    [row EXCEPT !.usage_count = req[r].usageCount + 1])
         /\ SetReq(r, [Goto(req[r], "upstream") EXCEPT
                          !.charged = ~updateError,
                          !.before = OrZero(row.usage_count),
                          !.sinceReset = ResetSinceStart(Acct(r))])
    /\ UNCHANGED <<handler, user, now, events, hook, initial, local>>

\* update({credits_balance: credits_balance - 1}), lines 837-845; an error
\* of the update goes to console.error and the request goes on
WeeklyCharge(r) ==
    /\ handler \in WeeklyVersions
    /\ req[r].pc = "charge"
    /\ \E updateError \in UpdateErrors :
         LET row == store[Acct(r)] IN
         /\ Updated(updateError, Acct(r),
                    [row EXCEPT
                       !.credits_balance = OrZero(req[r].sub.credits_balance) - 1])
         /\ SetReq(r, [Goto(req[r], "upstream") EXCEPT
                          !.charged = ~updateError,
                          !.before = row.credits_balance])
    /\ UNCHANGED <<handler, user, now, events, hook, initial, local>>

\* req.json(), the messages check, the upstream call (lines 848-917) and
\* the entry of the catch block, which awaits an update for the free plan
\* and for the subscription and answers 500 at once for any other plan; the
\* destructuring of the body (line 856) stands outside every try block
WeeklyUpstream(r) ==
    /\ handler \in WeeklyVersions
    /\ req[r].pc = "upstream"
    /\ \E body \in Bodies :
         IF body = "null"
         THEN SetReq(r, Rejects(req[r]))
         ELSE IF body \notin WithMessages
         THEN SetReq(r, Respond(req[r], 400, ""))
         ELSE \E res \in UpstreamResults :
                IF res = "ok"
                THEN IF handler = H_DEBUG
                     THEN SetReq(r, Respond(Forwarded(req[r], res), 200, ""))
                     ELSE SetReq(r, Respond(Logged(Forwarded(req[r], res)), 200, ""))
                ELSE IF req[r].sub.plan_type \in {"free", "pro_subscription"}
                     THEN SetReq(r, Goto(Forwarded(req[r], res), "rollback"))
                     ELSE SetReq(r, Respond(Forwarded(req[r], res), 500, ""))
    /\ UNCHANGED <<handler, store, user, now, events, hook, initial, local>>

\* the catch block, lines 918-941: the free plan gets credits_balance back,
\* the subscription plan gets subscription.usage_count back
WeeklyRollback(r) ==
    /\ handler \in WeeklyVersions
    /\ req[r].pc = "rollback"
    /\ IF req[r].sub.plan_type = "free"
       THEN SetRow(Acct(r), RolledBackRow(req[r], store[Acct(r)],
                               [store[Acct(r)] EXCEPT
                                  !.credits_balance = req[r].sub.credits_balance]))
       ELSE IF req[r].sub.plan_type = "pro_subscription"
       THEN SetRow(Acct(r), RolledBackRow(req[r], store[Acct(r)],
                               [store[Acct(r)] EXCEPT
                                  !.usage_count = OrZero(req[r].sub.usage_count)]))
       ELSE UNCHANGED store
    /\ SetReq(r, RollbackAnswer(req[r]))
    /\ UNCHANGED <<handler, user, now, events, hook, initial, local>>

----------------------------------------------------------------------------
(* Version "atomic_rpc": handler, src/TECH_STACK.md:383-590                 *)

\* the limit check and what follows it, lines 472-483
AtomicLimitCheck(q, usageCount) ==
    IF AtLimit(usageCount)
    THEN Respond(q, 429, "WEEKLY_LIMIT_REACHED")
    ELSE Goto(q, "inc_rpc")

\* lines 435-504, up to the first awaited write
AtomicEvaluate(q, sub, t) ==
    LET q1 == [q EXCEPT !.sub = Snapshot(sub)] IN
    IF sub.plan_type = "byok_license"
    THEN Respond(q1, 403, "USE_OWN_KEY")
    ELSE IF sub.plan_type = "pro_subscription"
    THEN IF Inactive(sub)
         THEN Respond(q1, 403, "SUBSCRIPTION_INACTIVE")
         ELSE IF PeriodElapsed(sub.last_reset_at, t)
              THEN Goto(q1, "reset_rpc")
              ELSE AtomicLimitCheck(q1, sub.usage_count)
    ELSE IF sub.plan_type = "free"
    THEN IF CreditsExhausted(sub.credits_balance)
         THEN Exhausted(q1)
         ELSE Goto(q1, "deduct_rpc")
    ELSE Goto(q1, "upstream")

AtomicSelect(r) ==
    /\ handler = H_ATOMIC
    /\ Arrives(r)
    /\ LET row == store[Acct(r)] IN
         IF ~row.exists
         THEN SetReq(r, [Goto(req[r], "insert") EXCEPT !.at = now])
         ELSE SetReq(r, AtomicEvaluate(req[r], row, now))
    /\ UNCHANGED <<handler, store, user, now, events, hook, initial, local>>

AtomicInsert(r) ==
    /\ handler = H_ATOMIC
    /\ req[r].pc = "insert"
    /\ IF PrimaryKeyConflict(store[Acct(r)])
       THEN /\ SetReq(r, Respond(req[r], 500, ""))
            /\ UNCHANGED store
       ELSE /\ SetRow(Acct(r), Inserted(store[Acct(r)], DefaultRow(req[r].at)))
            /\ SetReq(r, AtomicEvaluate([req[r] EXCEPT !.at = 0],
                                         DefaultRow(req[r].at), now))
    /\ UNCHANGED <<handler, user, now, events, hook, initial, local>>

\* rpc("reset_weekly_usage") succeeds: sub.usage_count = 0, then the limit check
AtomicResetRpc(r) ==
    /\ handler = H_ATOMIC
    /\ req[r].pc = "reset_rpc"
    /\ LET row == store[Acct(r)]
           new == ResetWeeklyUsageRow(row, now) IN
         /\ SetRow(Acct(r), new)
         /\ SetReq(r, AtomicLimitCheck(
                        [req[r] EXCEPT !.sub.usage_count = 0,
                                       !.didReset = (new # row)], 0))
    /\ UNCHANGED <<handler, user, now, events, hook, initial, local>>

\* rpc("reset_weekly_usage") returns an error: the limit check runs on the
\* count that was read
AtomicResetRpcError(r) ==
    /\ handler = H_ATOMIC
    /\ req[r].pc = "reset_rpc"
    /\ SetReq(r, AtomicLimitCheck(req[r], req[r].sub.usage_count))
    /\ UNCHANGED <<handler, store, user, now, events, hook, initial, local>>

\* rpc("increment_usage") succeeds
AtomicIncRpc(r) ==
    /\ handler = H_ATOMIC
    /\ req[r].pc = "inc_rpc"
    /\ LET row == store[Acct(r)]
           new == IncrementUsageRow(row) IN
         /\ SetRow(Acct(r), new)
         /\ SetReq(r, [Goto(req[r], "upstream") EXCEPT
                          !.charged = (new # row),
                          !.before = OrZero(row.usage_count),
                          !.sinceReset = ResetSinceStart(Acct(r))])
    /\ UNCHANGED <<handler, user, now, events, hook, initial, local>>

\* rpc("increment_usage") returns an error: 500 "Failed to track usage"
AtomicIncRpcError(r) ==
    /\ handler = H_ATOMIC
    /\ req[r].pc = "inc_rpc"
    /\ SetReq(r, Respond(req[r], 500, ""))
    /\ UNCHANGED <<handler, store, user, now, events, hook, initial, local>>

\* rpc("deduct_credit") succeeds; -1 means no row was updated
AtomicDeductRpc(r) ==
    /\ handler = H_ATOMIC
    /\ req[r].pc = "deduct_rpc"
    /\ LET row == store[Acct(r)] IN
         /\ SetRow(Acct(r), DeductCreditRow(row))
         /\ IF DeductCreditResult(row) = -1
            THEN SetReq(r, Exhausted(req[r]))
            ELSE SetReq(r, [Goto(req[r], "upstream") EXCEPT
                               !.charged = TRUE,
                               !.before = row.credits_balance])
    /\ UNCHANGED <<handler, user, now, events, hook, initial, local>>

\* rpc("deduct_credit") returns an error: 500 "Failed to track usage"
AtomicDeductRpcError(r) ==
    /\ handler = H_ATOMIC
    /\ req[r].pc = "deduct_rpc"
    /\ SetReq(r, Respond(req[r], 500, ""))
    /\ UNCHANGED <<handler, store, user, now, events, hook, initial, local>>

\* req.json(), the messages check, the upstream call, lines 527-546; the
\* catch block (583-589) answers 500 and writes nothing: it gets what the
\* upstream call throws and the TypeError of destructuring null
AtomicUpstream(r) ==
    /\ handler = H_ATOMIC
    /\ req[r].pc = "upstream"
    /\ \E body \in Bodies :
         IF body = "null"
         THEN SetReq(r, Respond(req[r], 500, ""))
         ELSE IF body \notin WithMessages
         THEN SetReq(r, Respond(req[r], 400, ""))
         ELSE \E res \in UpstreamResults :
                IF res = "ok"
                THEN SetReq(r, Respond(Forwarded(req[r], res), 200, ""))
                ELSE SetReq(r, Respond(Forwarded(req[r], res), 500, ""))
    /\ UNCHANGED <<handler, store, user, now, events, hook, initial, local>>

----------------------------------------------------------------------------
(* The relay of the upstream stream: the start() callback of the            *)
(* ReadableStream, the same loop in every version of the handler            *)

\* chunk.choices[0]?.delta?.content of an upstream chunk; "" stands for a
\* chunk without content
Fragments == {"", "a", "b"}

ContentEvent(f) == [type |-> "content", data |-> f]

DebugEvent == [type |-> "debug", data |-> ""]

DoneEvent == [type |-> "done", data |-> ""]

\* what one pass of the loop enqueues for the fragment f
Relayed(f) == IF f # "" THEN <<ContentEvent(f)>> ELSE <<>>

\* what is enqueued when the upstream stream has ended
ClosingEvents(h) ==
    IF h = H_DEBUG THEN <<DebugEvent, DoneEvent>> ELSE <<DoneEvent>>

\* what the catch block of the loop enqueues before controller.error(error)
FailureEventsMutant == <<DoneEvent>>

FailureEvents == <<>>

RECURSIVE ReadUpTo(_)
\* the number of fragments the requests 1..n have read from upstream
ReadUpTo(n) == IF n = 0 THEN 0 ELSE Len(req[n].read) + ReadUpTo(n - 1)

\* the loop reads the next chunk and relays its content
StreamChunk(r) ==
    /\ req[r].stream = "open"
    /\ ReadUpTo(NumReqs) < MaxChunks
    /\ \E f \in Fragments :
         SetReq(r, [req[r] EXCEPT !.read = Append(@, f),
                                  !.out = @ \o Relayed(f)])
    /\ UNCHANGED <<handler, store, user, now, events, hook, initial, local>>

\* the upstream stream ends: the terminal event, controller.close(); the
\* debug version inserts its usage log here
StreamEnd(r) ==
    /\ req[r].stream = "open"
    /\ LET q == [req[r] EXCEPT !.out = @ \o ClosingEvents(handler),
                               !.stream = "closed"]
       IN  SetReq(r, IF handler = H_DEBUG THEN Logged(q) ELSE q)
    /\ UNCHANGED <<handler, store, user, now, events, hook, initial, local>>

\* the upstream iterator throws: controller.error(error)
StreamError(r) ==
    /\ req[r].stream = "open"
    /\ SetReq(r, [req[r] EXCEPT !.out = @ \o FailureEvents,
                                !.stream = "errored"])
    /\ UNCHANGED <<handler, store, user, now, events, hook, initial, local>>

\* the upstream keeps the connection open and sends nothing more: the
\* `for await` of the loop stays pending, and no timer is set to end it
UpstreamStalls(r) ==
    /\ req[r].stream = "open"
    /\ SetReq(r, [req[r] EXCEPT !.stream = "stalled"])
    /\ UNCHANGED <<handler, store, user, now, events, hook, initial, local>>

----------------------------------------------------------------------------
(* The system message.  A text is stood for by its length: a slice from 0  *)
(* is the prefix of that many characters.                                   *)

PAGE_CONTEXT_LIMIT == 12000

SELECTION_LIMIT == 8000

SERVER_CONTEXT_LIMIT == 10000

\* String.prototype.slice(0, k) and substring(0, k) of a text of length len
Slice(len, k) == IF len < k THEN len ELSE k

\* buildMessagesWithContext of the panel, src/unnamed/part_005:43-64: the
\* length of the context text in the system message
BuildMessagesWithContext(len, contextType) ==
    IF len = 0 THEN 0
    ELSE IF contextType = "selection"
         THEN Slice(len, SELECTION_LIMIT)
         ELSE Slice(len, PAGE_CONTEXT_LIMIT)

\* buildMessagesWithContext of src/src/lib/ai.ts:22-34, which takes no
\* context type
LibBuildMessagesWithContext(len) ==
    IF len = 0 THEN 0 ELSE Slice(len, PAGE_CONTEXT_LIMIT)

\* the system message of the rpc_fallback handler, chat-proxy.ts:122-126,
\* built from the context field of the body
ServerSystemMessage(len) ==
    IF len = 0 THEN 0 ELSE Slice(len, SERVER_CONTEXT_LIMIT)

Builders == {"panel", "lib", "server"}

ContextTypes == {"page", "selection"}

\* only the builder of the panel is told what kind of context it is given
TypesTaken(b) == IF b = "panel" THEN ContextTypes ELSE {"page"}

\* lengths of the page text or selection handed to a builder
ContextLengths ==
    {0, SELECTION_LIMIT - 1, SELECTION_LIMIT, 9000, SERVER_CONTEXT_LIMIT,
     PAGE_CONTEXT_LIMIT, PAGE_CONTEXT_LIMIT + 1, 20000}

\* the system message of request r is built
BuildSystemMessage(r) ==
    /\ req[r].builder # "none"
    /\ req[r].embedded = NULL
    /\ LET q == req[r]
           n == IF q.builder = "panel"
                THEN BuildMessagesWithContext(q.contextLen, q.contextType)
                ELSE IF q.builder = "lib"
                THEN LibBuildMessagesWithContext(q.contextLen)
                ELSE ServerSystemMessage(q.contextLen)
       IN  SetReq(r, [q EXCEPT !.embedded = n])
    /\ UNCHANGED <<handler, store, user, now, events, hook, initial, local>>

----------------------------------------------------------------------------
(* The client: streamChatResponse, src/unnamed/part_005:84-121, and         *)
(* proxyChatRequest, src/src/lib/api-client.ts:140-165                      *)

\* the OpenAI key the user saved in local storage ("": none)
StoredKeys == {"", "sk-user-key"}

\* the access token of the Supabase session ("": not signed in)
SessionTokens == {"", "session-jwt"}

\* no request was made
NoFetch == [headers |-> <<>>, model |-> "", max_tokens |-> NULL]

\* the fetch of proxyChatRequest, with the key put in a header
ProxyFetchMutant(q) ==
    [headers |-> <<"Content-Type", "application/json",
                   "Authorization", "Bearer", q.token,
                   "X-Api-Key", q.storedKey>>,
     model |-> DEFAULT_MODEL, max_tokens |-> DEFAULT_MAX_TOKENS]

\* the fetch of proxyChatRequest: the names and values of its headers and,
\* of its JSON body, the model and max_tokens fields (the messages are the
\* caller's)
ProxyFetch(q) ==
    [headers |-> <<"Content-Type", "application/json",
                   "Authorization", "Bearer", q.token>>,
     model |-> DEFAULT_MODEL, max_tokens |-> DEFAULT_MAX_TOKENS]

\* streamChatResponse: the gate, then the direct call when a key was
\* passed, else proxyChatRequest (which needs a session)
StreamChatResponse(r) ==
    /\ req[r].pc = "idle"
    /\ req[r].route = "none"
    /\ req[r].gate = "checked"
    /\ LET q == req[r] IN
         IF ~q.allowed
         THEN SetReq(r, [q EXCEPT !.route = "refused",
                                  !.outcome = "LimitReachedError"])
         ELSE IF q.apiKey # ""
         THEN SetReq(r, [q EXCEPT !.route = "direct", !.phase = "streaming"])
         ELSE IF q.token = ""
         THEN SetReq(r, [q EXCEPT !.route = "auth_required",
                                  !.outcome = "AUTH_REQUIRED"])
         ELSE SetReq(r, [q EXCEPT !.route = "proxy", !.wire = ProxyFetch(q),
                                  !.phase = "streaming"])
    /\ UNCHANGED <<handler, store, user, now, events, hook, initial, local>>

Max(a, b) == IF a >= b THEN a ELSE b

\* getTrialInfo, src/unnamed/part_009:116-126, on the usage count and the
\* license flag its two reads returned (`|| 0` is done by the caller of the
\* first read)
GetTrialInfo(usageCount, hasLicense) ==
    [usageCount |-> usageCount,
     hasLicense |-> hasLicense,
     remaining |-> Max(0, TRIAL_LIMIT - usageCount),
     isTrialExpired |-> ~hasLicense /\ usageCount >= TRIAL_LIMIT]

\* checkAccessPermission, part_005:67-82
Allowed(trialInfo) == trialInfo.hasLicense \/ trialInfo.remaining > 0

\* the first read of getTrialInfo, part_009:117:
\* (await storage.get(TRIAL_USAGE_COUNT)) || 0
GetTrialUsageCount(r) ==
    /\ req[r].pc = "idle"
    /\ req[r].gate = "unchecked"
    /\ SetReq(r, [req[r] EXCEPT !.gate = "license",
                                !.trialInfo.usageCount = OrZero(local.usageCount)])
    /\ UNCHANGED <<handler, store, user, now, events, hook, initial, local>>

\* the second read of getTrialInfo, part_009:118, and what
\* checkAccessPermission makes of the info
CheckAccessPermission(r) ==
    /\ req[r].pc = "idle"
    /\ req[r].gate = "license"
    /\ LET trialInfo == GetTrialInfo(req[r].trialInfo.usageCount,
                                     local.hasLicense) IN
         SetReq(r, [req[r] EXCEPT !.gate = "checked",
                                  !.trialInfo = trialInfo,
                                  !.allowed = Allowed(trialInfo)])
    /\ UNCHANGED <<handler, store, user, now, events, hook, initial, local>>

\* setLicenseStatus(active), part_009:137-139; its one caller is
\* handleSubscribe of the paywall, with true (src/src/components/onboarding/
\* PaywallModal.tsx:241-251)
SetLicenseStatus(active) ==
    /\ local' = [local EXCEPT !.hasLicense = active]
    /\ UNCHANGED <<handler, store, req, user, now, events, hook, initial>>

\* the direct call or the proxy call ends in an error: onError
TransportFails(r) ==
    /\ req[r].phase = "streaming"
    /\ SetReq(r, [req[r] EXCEPT !.phase = "ended", !.outcome = "error"])
    /\ UNCHANGED <<handler, store, user, now, events, hook, initial, local>>

\* the stream was read to its end: the user with a license is done, the one
\* without goes on to incrementTrialUsage, part_005:109-114 and 149-154
TransportCompletes(r) ==
    /\ req[r].phase = "streaming"
    /\ SetReq(r, IF req[r].trialInfo.hasLicense
                 THEN [req[r] EXCEPT !.phase = "ended", !.outcome = "complete"]
                 ELSE [req[r] EXCEPT !.phase = "increment"])
    /\ UNCHANGED <<handler, store, user, now, events, hook, initial, local>>

\* incrementTrialUsage, part_009:129-134: await storage.get
IncrementTrialUsageGet(r) ==
    /\ req[r].phase = "increment"
    /\ SetReq(r, [req[r] EXCEPT !.phase = "set",
                                !.currentCount = OrZero(local.usageCount)])
    /\ UNCHANGED <<handler, store, user, now, events, hook, initial, local>>

\* await storage.set(newCount), then callbacks.onComplete()
IncrementTrialUsageSet(r) ==
    /\ req[r].phase = "set"
    /\ local' = [local EXCEPT !.usageCount = req[r].currentCount + 1]
    /\ SetReq(r, [req[r] EXCEPT !.phase = "ended", !.outcome = "complete"])
    /\ UNCHANGED <<handler, store, user, now, events, hook, initial>>

----------------------------------------------------------------------------
(* syncSubscriptionFromServer, src/unnamed/part_009:142-165 *)

\* getUserSubscription, src/src/lib/api-client.ts:117-137: select("*"), and
\* null (here NoRow) when nobody is signed in or when .single() returns an
\* error
GetUserSubscription(r) ==
    IF req[r].token = "" \/ ~store[Acct(r)].exists
    THEN NoRow
    ELSE store[Acct(r)]

\* part_009:148-150
IsActive(sub) ==
    /\ sub.plan_type \in {"pro_subscription", "byok_license"}
    /\ sub.subscription_status = "active"

\* part_009:156 (null counts as 0 in JavaScript arithmetic)
ServerUsage(sub) == TRIAL_LIMIT - OrZero(sub.credits_balance)

\* await getUserSubscription()
SyncFetch(r) ==
    /\ req[r].sync.pc = "idle"
    /\ LET sub == GetUserSubscription(r) IN
         SetReq(r, [req[r] EXCEPT !.sync.sub = sub,
                                  !.sync.pc = IF ~sub.exists THEN "return"
                                              ELSE "license"])
    /\ UNCHANGED <<handler, store, user, now, events, hook, initial, local>>

\* await storage.set(HAS_ACTIVE_LICENSE, isActive)
SyncSetLicense(r) ==
    /\ req[r].sync.pc = "license"
    /\ LET sub == req[r].sync.sub IN
         /\ local' = [local EXCEPT !.hasLicense = IsActive(sub)]
         /\ SetReq(r, [req[r] EXCEPT !.sync.pc =
                          IF sub.plan_type = "free" /\ OrZero(sub.credits_balance) >= 0
                          THEN "usage" ELSE "return"])
    /\ UNCHANGED <<handler, store, user, now, events, hook, initial>>

\* await storage.set(TRIAL_USAGE_COUNT, Math.max(0, serverUsage))
SyncSetUsage(r) ==
    /\ req[r].sync.pc = "usage"
    /\ local' = [local EXCEPT !.usageCount = Max(0, ServerUsage(req[r].sync.sub))]
    /\ SetReq(r, [req[r] EXCEPT !.sync.pc = "return"])
    /\ UNCHANGED <<handler, store, user, now, events, hook, initial>>

\* return getTrialInfo(): its first read, part_009:117
SyncReturnUsageCount(r) ==
    /\ req[r].sync.pc = "return"
    /\ SetReq(r, [req[r] EXCEPT !.sync.pc = "flag",
                                !.sync.info.usageCount = OrZero(local.usageCount)])
    /\ UNCHANGED <<handler, store, user, now, events, hook, initial, local>>

\* its second read, part_009:118, and the info returned
SyncReturn(r) ==
    /\ req[r].sync.pc = "flag"
    /\ SetReq(r, [req[r] EXCEPT
                    !.sync.pc = "done",
                    !.sync.info = GetTrialInfo(req[r].sync.info.usageCount,
                                               local.hasLicense)])
    /\ UNCHANGED <<handler, store, user, now, events, hook, initial, local>>

----------------------------------------------------------------------------
(* sendMessageToActiveTab, src/src/lib/utils.ts:77-171.  A URL is modelled  *)
(* by the prefix it starts with; `log` is the list of the send attempts     *)
(* made so far, each with the way it ended.                                 *)

\* utils.ts:60-67
RESTRICTED_URL_PREFIXES ==
    {"chrome://", "chrome-extension://", "edge://", "about:", "moz-extension://",
     "devtools://"}

\* utils.ts:95-98; a tab without a url has the url ""
IsRestricted(tabUrl) == tabUrl \in RESTRICTED_URL_PREFIXES

\* the ways chrome.tabs.sendMessage ends: with the response, with an error
\* whose message says the receiving end is not there, with any other error
SendOutcomes == {"response", "not_ready", "other_error"}

\* utils.ts:132-136
IsNotReady(outcome) == outcome = "not_ready"

\* a retry after any error
CanRetryMutant(outcome, attempt, maxRetries) == attempt < maxRetries

\* utils.ts:138
CanRetry(outcome, attempt, maxRetries) ==
    IsNotReady(outcome) /\ attempt < maxRetries

\* the value the call returns; a field that is left out is false
Result(success, error, shouldRetry, isRestrictedPage) ==
    [success |-> success, error |-> error, shouldRetry |-> shouldRetry,
     isRestrictedPage |-> isRestrictedPage]

Returns(y, result) == [y EXCEPT !.pc = "done", !.result = result]

\* the head of the for loop, utils.ts:118, and the return after it, 159-163
LoopHead(y) ==
    IF y.attempt <= y.maxRetries
    THEN [y EXCEPT !.pc = "send"]
    ELSE Returns(y, Result(FALSE, "Failed to connect to content script", TRUE, FALSE))

\* await chrome.tabs.query and the checks of the tab, utils.ts:82-115; a
\* query that throws is answered by the outer catch, 164-170
TabsQuery(r) ==
    /\ req[r].send.pc = "idle"
    /\ LET y == req[r].send
           activeTab == y.activeTab IN
         SetReq(r, [req[r] EXCEPT !.send =
            IF y.query = "throws"
            THEN Returns(y, Result(FALSE, "errorMessage", FALSE, FALSE))
            ELSE IF ~activeTab.id
            THEN Returns(y, Result(FALSE, "No active tab available", FALSE, FALSE))
            ELSE IF IsRestricted(activeTab.url)
            THEN Returns(y, Result(FALSE, "Cannot access system pages", FALSE, TRUE))
            ELSE IF activeTab.status # "complete"
            THEN Returns(y, Result(FALSE, "Page is still loading", TRUE, FALSE))
            ELSE LoopHead([y EXCEPT !.attempt = 0])])
    /\ UNCHANGED <<handler, store, user, now, events, hook, initial, local>>

\* await chrome.tabs.sendMessage, utils.ts:119-156
SendMessage(r) ==
    /\ req[r].send.pc = "send"
    /\ \E outcome \in SendOutcomes :
         LET y == [req[r].send EXCEPT !.log = Append(@, outcome)] IN
         SetReq(r, [req[r] EXCEPT !.send =
            IF outcome = "response"
            THEN Returns(y, Result(TRUE, "", FALSE, FALSE))
            ELSE IF CanRetry(outcome, y.attempt, y.maxRetries)
            THEN [y EXCEPT !.pc = "wait"]
            ELSE IF IsNotReady(outcome)
            THEN Returns(y, Result(FALSE,
                     "Content script not ready. Try refreshing the page.",
                     TRUE, FALSE))
            ELSE Returns(y, Result(FALSE, "errorMessage", FALSE, FALSE))])
    /\ UNCHANGED <<handler, store, user, now, events, hook, initial, local>>

\* the timer of utils.ts:140 fires; continue: attempt++ and the loop's head
RetryTimer(r) ==
    /\ req[r].send.pc = "wait"
    /\ SetReq(r, [req[r] EXCEPT !.send =
                     LoopHead([req[r].send EXCEPT !.attempt = @ + 1])])
    /\ UNCHANGED <<handler, store, user, now, events, hook, initial, local>>

----------------------------------------------------------------------------
(* The reader of proxyChatRequest, src/src/lib/api-client.ts:140-244.  A    *)
(* text is a sequence of tokens; a read delivers any number of them.        *)

LF == "\\n"

\* encoder.encode(`data: ${data}\n\n`) with data = JSON.stringify({content}),
\* JSON.stringify({debug}) or [DONE]
Encode(e) ==
    <<"data:", " ">>
    \o (IF e.type = "content" THEN <<"{", "content", ":", e.data, "}">>
        ELSE IF e.type = "debug" THEN <<"{", "debug", ":", "{}", "}">>
        ELSE <<"[", "DONE", "]">>)
    \o <<LF, LF>>

RECURSIVE EncodeAll(_)
\* the bytes of a response stream into which the events es were enqueued
EncodeAll(es) == IF es = <<>> THEN <<>> ELSE Encode(Head(es)) \o EncodeAll(Tail(es))

RECURSIVE RelayedAll(_)
\* what the loop of the handler enqueues for the fragments fs
RelayedAll(fs) == IF fs = <<>> THEN <<>> ELSE Relayed(Head(fs)) \o RelayedAll(Tail(fs))

\* buffer.split("\n"): the pieces between the line feeds, the last one being
\* what follows the last line feed
Split(text) ==
    LET feeds == {i \in 1..Len(text) : text[i] = LF}
        feed(j) == CHOOSE i \in feeds : Cardinality({x \in feeds : x < i}) = j - 1
        first(j) == IF j = 1 THEN 1 ELSE feed(j - 1) + 1
        last(j) == IF j = Cardinality(feeds) + 1 THEN Len(text) ELSE feed(j) - 1
    IN  [j \in 1..(Cardinality(feeds) + 1) |-> SubSeq(text, first(j), last(j))]

\* line.startsWith("data: ")
StartsWithData(line) == Len(line) >= 2 /\ line[1] = "data:" /\ line[2] = " "

\* line.slice(6).trim()
Data(line) == SubSeq(line, 3, Len(line))

\* JSON.parse(data) returns an object (it throws on anything else here)
Parses(data) == Len(data) = 5 /\ data[1] = "{" /\ data[3] = ":" /\ data[5] = "}"

OnChunk(content) == [cb |-> "onChunk", arg |-> content]

OnComplete == [cb |-> "onComplete", arg |-> ""]

OnError(code) == [cb |-> "onError", arg |-> code]

\* `callbacks.onComplete(); return`: the lines after [DONE] are not looked at
AfterDone(c, rest) == <<>>

RECURSIVE ProcessLines(_, _)
\* the `for (const line of lines)` loop on the call c: the callbacks made,
\* and pc "returned" when [DONE] was met
ProcessLines(c, lines) ==
    IF lines = <<>> THEN c
    ELSE LET line == Head(lines) IN
         IF ~StartsWithData(line) THEN ProcessLines(c, Tail(lines))
         ELSE IF Data(line) = <<"[", "DONE", "]">>
         THEN ProcessLines([c EXCEPT !.calls = Append(@, OnComplete),
                                     !.pc = "returned"],
                           AfterDone(c, Tail(lines)))
         ELSE IF Parses(Data(line)) /\ Data(line)[2] = "content"
                 /\ Data(line)[4] # ""
         THEN ProcessLines([c EXCEPT !.calls = Append(@, OnChunk(Data(line)[4]))],
                           Tail(lines))
         ELSE ProcessLines(c, Tail(lines))

\* getSupabaseClient() throws when the configuration is missing
\* (src/src/lib/supabase.ts:10-12), else getSession resolves, with the
\* token of the session or with null
Sessions == {"resolves", "rejects"}

\* what the responses of the proxy can be: fetch throws, a status that is
\* not 2xx, a status that is not 2xx with the JSON null as its body, a
\* response without a body, a response with the event stream
Responses == {"network_error", "http_error", "http_null", "no_body", "stream"}

\* what fetch and reader.read() throw: an Error (the TypeError of a failed
\* fetch, the AbortError of a cancelled one) or a value that is not one
Thrown == {"TypeError", "AbortError", "not an Error"}

\* error instanceof Error ? error : new ApiError("Network error",
\* "NETWORK_ERROR", 0), lines 237-241: what onError is handed
Caught(error) == IF error = "not an Error" THEN "NETWORK_ERROR" ELSE error

\* how the event stream ends: closed by the server, or in error
Endings == {"closed", "errored"}

\* errorData.code of a response that is not ok: the codes the handlers send,
\* and none when the body has no code or is not JSON
ErrorCodes ==
    {"", "CREDITS_EXHAUSTED", "SUBSCRIPTION_INACTIVE", "USE_OWN_KEY",
     "WEEKLY_LIMIT_REACHED"}

\* errorData.code || "API_ERROR", line 168: the code of the error handed to
\* onError, whatever its class
ErrorCode(code) == IF code = "" THEN "API_ERROR" ELSE code

\* getSession() and the fetch, lines 146-194.  getSession is awaited
\* before the try block: when it rejects the call rejects with it and no
\* callback is made.  `response.json().catch(() => ({}))` resolves with
\* null for the body null, errorData.code then throws a TypeError inside
\* the try block and the catch of line 236 hands it to onError.
ProxyChatRequest(r) ==
    /\ req[r].call.pc = "called"
    /\ LET c == req[r].call
           answer(code) == [c EXCEPT !.calls = Append(@, OnError(code)),
                                     !.pc = "returned"]
       IN  SetReq(r, [req[r] EXCEPT !.call =
             IF c.session = "rejects" THEN [c EXCEPT !.pc = "rejected"]
             ELSE IF req[r].token = "" THEN answer("AUTH_REQUIRED")
             ELSE IF c.response = "network_error" THEN answer(Caught(c.error))
             ELSE IF c.response = "http_error" THEN answer(ErrorCode(c.code))
             ELSE IF c.response = "http_null" THEN answer(Caught("TypeError"))
             ELSE IF c.response = "no_body" THEN answer("NO_BODY")
             ELSE [c EXCEPT !.pc = "reading"]])
    /\ UNCHANGED <<handler, store, user, now, events, hook, initial, local>>

\* a reader that starts every read with an empty buffer
IncompleteLineMutant(lines) == <<>>

\* buffer = lines.pop() || "": the incomplete line is kept for the next read
IncompleteLine(lines) == lines[Len(lines)]

\* reader.read() returns the next bytes, however many: lines 203-232
ReaderRead(r) ==
    /\ req[r].call.pc = "reading"
    /\ LET c == req[r].call IN
       \E k \in 1..(Len(c.body) - c.pos) :
         LET lines == Split(c.buffer \o SubSeq(c.body, c.pos + 1, c.pos + k))
         IN  SetReq(r, [req[r] EXCEPT !.call =
               ProcessLines([c EXCEPT !.pos = c.pos + k,
                                      !.buffer = IncompleteLine(lines)],
                            SubSeq(lines, 1, Len(lines) - 1))])
    /\ UNCHANGED <<handler, store, user, now, events, hook, initial, local>>

\* reader.read() returns done: lines 204-206 and 235
ReaderDone(r) ==
    /\ req[r].call.pc = "reading"
    /\ req[r].call.ending = "closed"
    /\ req[r].call.pos = Len(req[r].call.body)
    /\ SetReq(r, [req[r] EXCEPT !.call.calls = Append(@, OnComplete),
                                !.call.pc = "returned"])
    /\ UNCHANGED <<handler, store, user, now, events, hook, initial, local>>

\* reader.read() rejects, after any part of the body: lines 236-242
ReaderThrows(r) ==
    /\ req[r].call.pc = "reading"
    /\ req[r].call.ending = "errored"
    /\ SetReq(r, [req[r] EXCEPT
                    !.call.calls = Append(@, OnError(Caught(req[r].call.error))),
                    !.call.pc = "returned"])
    /\ UNCHANGED <<handler, store, user, now, events, hook, initial, local>>

----------------------------------------------------------------------------------
(* The payment webhook, src/TECH_STACK.md:45-339.  Every call is its own    *)
(* invocation of the function and nothing orders the invocations: `hook`    *)
(* holds, for each of the invocations that can run together, the call it is *)
(* handling; of the calls answered, the last one is kept.  A call has one   *)
(* step per awaited call to the store.                                      *)

\* the invocations that can run at the same time
Calls == {1, 2}

\* what planType can be at the upsert, lines 124-130: the default, the plan
\* of a session in subscription mode, and whatever session.metadata.plan_type
\* holds (`as typeof planType` checks nothing when the code runs): a plan
\* of its type, the plan "free", a value that is no plan of the table
WebhookPlans == {"byok_license", "pro_subscription", "free", "team"}

\* check (plan_type in ('free', 'byok_license', 'pro_subscription')),
\* src/SUPABASE_SETUP.sql:9
TablePlans == {"free", "byok_license", "pro_subscription"}

\* subscription.status of a Stripe subscription
StripeStatuses ==
    {"active", "past_due", "canceled", "unpaid", "trialing", "incomplete",
     "incomplete_expired", "paused"}

\* statusMap[subscription.status] || subscription.status, lines 193-201
StatusMap(status) ==
    CASE status = "active" -> "active"
      [] status = "past_due" -> "past_due"
      [] status = "canceled" -> "cancelled"
      [] status = "unpaid" -> "past_due"
      [] status = "trialing" -> "active"
      [] OTHER -> status

\* the check constraint on subscription_status, src/SUPABASE_SETUP.sql:11
SubscriptionStatuses == {"active", "cancelled", "expired", "past_due"}

\* no webhook call has been made in this invocation yet
NoCall == [type |-> "none", signature |-> "none", status |-> 0,
           logged |-> FALSE, account |-> "none", pc |-> "none"]

\* no webhook call has been made yet
NoDelivery == [k \in Calls |-> NoCall]

\* the invocation answered a call, and another call was answered since
Answered == [NoCall EXCEPT !.pc = "done"]

\* a call with a verified signature was dispatched on its type and answered
\* 200; logged: the event handler appended a usage-log entry
Delivered(a, type, logged) ==
    [type |-> type, signature |-> "valid", status |-> 200, logged |-> logged,
     account |-> a, pc |-> "done"]

\* the event handler threw: the catch of lines 101-107 answers 500
Failed(a, type) ==
    [type |-> type, signature |-> "valid", status |-> 500, logged |-> FALSE,
     account |-> a, pc |-> "done"]

\* the event handler of a call for account a waits for its next awaited
\* call, pc
Pending(a, type, pc) ==
    [type |-> type, signature |-> "valid", status |-> 0, logged |-> FALSE,
     account |-> a, pc |-> pc]

\* invocation k is not handling a call
Idle(k) == hook[k].pc \in {"none", "done"}

\* a call arrives while any number of others are being handled, and is
\* taken by the first invocation that is not handling one
Dispatch(k) ==
    /\ Idle(k)
    /\ \A j \in Calls : j < k => ~Idle(j)
    /\ events > 0
    /\ events' = events - 1

\* call k goes on as `call`; when that is its answer, it is the last call
\* answered
SetCall(k, call) ==
    hook' = [j \in Calls |->
                IF j = k THEN call
                ELSE IF call.pc = "done" /\ hook[j].pc = "done" THEN Answered
                ELSE hook[j]]

\* the row an upsert leaves: the named columns are overwritten, the others
\* keep their value (or take the table defaults when the row is new)
UpsertBase(row) ==
    IF PrimaryKeyConflict(row) THEN row ELSE Inserted(row, LegacyDefaultRow)

\* handleCheckoutCompleted, lines 110-159, for a session with a
\* client_reference_id: customerId is session.customer, null for a session
\* without a customer; the subscription is retrieved when the session has
\* one (currentPeriodEnd stays null when that throws), then the upsert; an
\* error of the upsert is thrown
CheckoutCompleted(k, a, planType, customerId, subscriptionId, currentPeriodEnd) ==
    /\ Dispatch(k)
    /\ \E error \in UpdateErrors :
         /\ planType \notin TablePlans => error
         /\ Updated(error, a,
                    [UpsertBase(store[a]) EXCEPT
                       !.plan_type = planType,
                       !.subscription_status = "active",
                       !.stripe_customer_id = customerId,
                       !.stripe_subscription_id = subscriptionId,
                       !.current_period_end = currentPeriodEnd,
                       !.credits_balance =
                           IF planType = "byok_license" THEN UNLIMITED ELSE NULL])
         /\ SetCall(k, IF error
                       THEN Failed(a, "checkout.session.completed")
                       ELSE Pending(a, "checkout.session.completed", "log"))
    /\ UNCHANGED <<handler, req, user, now, initial, local>>

\* the insert into usage_logs that ends handleCheckoutCompleted,
\* handleSubscriptionDeleted and handlePaymentFailed: it is awaited, its
\* result is not looked at, and the call is answered 200 whether the row
\* was inserted or not
HookLogInsert(k) ==
    /\ hook[k].pc = "log"
    /\ \E insertError \in UpdateErrors :
         SetCall(k, Delivered(hook[k].account, hook[k].type, ~insertError))
    /\ UNCHANGED <<handler, store, req, user, now, events, initial, local>>

\* the account a Stripe customer id resolves to
FoundByCustomer(a) == store[a].exists /\ store[a].stripe_customer_id

\* select("user_id").eq("stripe_customer_id", customerId).single() of the
\* event handlers for `type`: without a row the handler returns
FindByCustomer(k, a, type) ==
    /\ Dispatch(k)
    /\ SetCall(k, IF FoundByCustomer(a)
                  THEN Pending(a, type, "update")
                  ELSE Delivered("none", type, FALSE))
    /\ UNCHANGED <<handler, store, req, user, now, initial, local>>

\* the update of an event handler is awaited
Updates(k, a, type) ==
    /\ hook[k].pc = "update"
    /\ hook[k].type = type
    /\ hook[k].account = a

\* the event types the switch of lines 76-79 sends to
\* handleSubscriptionUpdated
SubscriptionChanges ==
    {"customer.subscription.created", "customer.subscription.updated"}

\* handleSubscriptionUpdated, lines 175-190
SubscriptionUpdated(k, a) ==
    \E type \in SubscriptionChanges : FindByCustomer(k, a, type)

\* lines 192-218: the update, which the table refuses for a status outside
\* its check constraint; an error of the update is thrown
SubscriptionUpdatedUpdate(k, a, status) ==
    /\ \E type \in SubscriptionChanges : Updates(k, a, type)
    /\ \E updateError \in UpdateErrors :
         /\ StatusMap(status) \notin SubscriptionStatuses => updateError
         /\ Updated(updateError, a,
                    [store[a] EXCEPT !.subscription_status = StatusMap(status),
                                     !.stripe_subscription_id = TRUE,
                                     !.current_period_end = TRUE])
         /\ SetCall(k, IF updateError
                       THEN Failed(a, hook[k].type)
                       ELSE Delivered(a, hook[k].type, FALSE))
    /\ UNCHANGED <<handler, req, user, now, events, initial, local>>

\* handleSubscriptionDeleted, lines 221-236
SubscriptionDeleted(k, a) ==
    FindByCustomer(k, a, "customer.subscription.deleted")

\* lines 238-253: an error of the update is thrown
SubscriptionDeletedUpdate(k, a) ==
    /\ Updates(k, a, "customer.subscription.deleted")
    /\ \E updateError \in UpdateErrors :
         /\ Updated(updateError, a,
                    [store[a] EXCEPT !.plan_type = "free",
                                     !.subscription_status = "cancelled",
                                     !.credits_balance = 0,
                                     !.stripe_subscription_id = FALSE,
                                     !.current_period_end = FALSE])
         /\ SetCall(k, IF updateError
                       THEN Failed(a, hook[k].type)
                       ELSE Pending(a, hook[k].type, "log"))
    /\ UNCHANGED <<handler, req, user, now, events, initial, local>>

\* handlePaymentSucceeded, lines 265-286, for an invoice of a subscription
PaymentSucceeded(k, a) == FindByCustomer(k, a, "invoice.payment_succeeded")

\* lines 288-302: stripe.subscriptions.retrieve, which may throw, then the
\* update, whose error goes to console.error
PaymentSucceededUpdate(k, a) ==
    /\ Updates(k, a, "invoice.payment_succeeded")
    /\ \E retrieveThrows \in BOOLEAN, updateError \in UpdateErrors :
         /\ Updated(retrieveThrows \/ updateError, a,
                    [store[a] EXCEPT !.subscription_status = "active",
                                     !.current_period_end = TRUE])
         /\ SetCall(k, IF retrieveThrows
                       THEN Failed(a, hook[k].type)
                       ELSE Delivered(a, hook[k].type, FALSE))
    /\ UNCHANGED <<handler, req, user, now, events, initial, local>>

\* handlePaymentFailed, lines 305-320
PaymentFailed(k, a) == FindByCustomer(k, a, "invoice.payment_failed")

\* lines 322-329: the update, whose error goes to console.error
PaymentFailedUpdate(k, a) ==
    /\ Updates(k, a, "invoice.payment_failed")
    /\ \E updateError \in UpdateErrors :
         Updated(updateError, a,
                 [store[a] EXCEPT !.subscription_status = "past_due"])
    /\ SetCall(k, Pending(a, hook[k].type, "log"))
    /\ UNCHANGED <<handler, req, user, now, events, initial, local>>

\* the events a handler returns from at once: a checkout session without a
\* client_reference_id (lines 115-118), an invoice without a subscription
\* (271-274), an event of another type (93-94)
IgnoredEvents ==
    {"checkout.session.completed", "invoice.payment_succeeded", "charge.succeeded"}

WebhookIgnored(k) ==
    /\ Dispatch(k)
    /\ \E type \in IgnoredEvents : SetCall(k, Delivered("none", type, FALSE))
    /\ UNCHANGED <<handler, store, req, user, now, initial, local>>

\* the stripe-signature header of a call that is absent, or that
\* constructEvent rejects
BadSignatures == {"missing", "invalid"}

\* the answer to such a call: 400 before the event is looked at
Refused(sig) ==
    [type |-> "unverified", signature |-> sig, status |-> 400, logged |-> FALSE,
     account |-> "none", pc |-> "done"]

\* the answer to a call whose method is not POST: 405 before the
\* stripe-signature header is read, whatever it holds
NotAllowed(sig) ==
    [type |-> "not POST", signature |-> sig, status |-> 405, logged |-> FALSE,
     account |-> "none", pc |-> "done"]

\* handler, lines 46-48: a call of any other method than POST, with a
\* signature that would or would not have been verified
WebhookMethodNotAllowed(k) ==
    \E sig \in BadSignatures \cup {"valid"} :
      /\ Dispatch(k)
      /\ SetCall(k, NotAllowed(sig))
      /\ UNCHANGED <<handler, store, req, user, now, initial, local>>

\* handler, lines 50-66, dispatching the event all the same
WebhookRefusedMutant(k) ==
    \E sig \in BadSignatures, a \in Accounts :
      /\ Dispatch(k)
      /\ SetCall(k, Refused(sig))
      /\ SetRow(a, [store[a] EXCEPT !.subscription_status = "past_due"])
      /\ UNCHANGED <<handler, req, user, now, initial, local>>

\* handler, lines 50-66: the call is answered before any event handler runs
WebhookRefused(k) ==
    \E sig \in BadSignatures :
      /\ Dispatch(k)
      /\ SetCall(k, Refused(sig))
      /\ UNCHANGED <<handler, store, req, user, now, initial, local>>

\* the sessions a checkout event can carry, with or without a customer,
\* with or without a subscription, whose period end is null when the
\* session has none or when it could not be retrieved
Checkout(k, a) ==
    \E planType \in WebhookPlans, customerId \in BOOLEAN,
       subscriptionId \in BOOLEAN, currentPeriodEnd \in BOOLEAN :
         /\ currentPeriodEnd => subscriptionId
         /\ CheckoutCompleted(k, a, planType, customerId, subscriptionId,
                              currentPeriodEnd)

\* the steps of the cancellation of a subscription
Cancellation(k, a) == SubscriptionDeleted(k, a) \/ SubscriptionDeletedUpdate(k, a)

\* the steps of the events about the payments of a subscription
PaymentEvents(k, a) ==
    \/ SubscriptionUpdated(k, a)
    \/ \E status \in StripeStatuses : SubscriptionUpdatedUpdate(k, a, status)
    \/ PaymentSucceeded(k, a)
    \/ PaymentSucceededUpdate(k, a)
    \/ PaymentFailed(k, a)
    \/ PaymentFailedUpdate(k, a)

\* the steps of the verified calls that are resolved to account a
WebhookFor(k, a) ==
    \/ Checkout(k, a)
    \/ Cancellation(k, a)
    \/ PaymentEvents(k, a)

Webhook ==
    \E k \in Calls : \/ \E a \in Accounts : WebhookFor(k, a)
                     \/ HookLogInsert(k)
                     \/ WebhookIgnored(k)

----------------------------------------------------------------------------
(* Time *)

Tick ==
    /\ now < MaxNow
    /\ now' = now + 1
    /\ UNCHANGED <<handler, store, req, user, events, hook, initial, local>>

----------------------------------------------------------------------------
(* Initial states *)

\* rows of accounts on the free plan
FreeRows ==
    {Row("free", c, "active", 0, 0, FALSE, FALSE, FALSE) : c \in 0..MaxCredits}

\* usage counts a subscription row starts with
UsageStarts == {0, 200, WEEKLY_LIMIT - 1, WEEKLY_LIMIT}

\* rows written by the checkout webhook for a subscription, after some use
ProRows ==
    {Row("pro_subscription", NULL, st, u, 0, TRUE, TRUE, TRUE) :
        st \in {"active", "past_due"}, u \in UsageStarts}

ActiveProRows == {row \in ProRows : row.subscription_status = "active"}

\* rows written by the checkout webhook for a one-time license
ByokRows == {Row("byok_license", UNLIMITED, "active", 0, 0, TRUE, FALSE, FALSE)}

\* the row of an account that takes no part
BystanderRow == Row("pro_subscription", NULL, "active", 200, 0, TRUE, TRUE, TRUE)

\* the tables in which the addressed accounts have a row of `rows`
Table(rows) ==
    {[a \in AllAccounts |-> IF a \in Accounts THEN t[a] ELSE BystanderRow] :
        t \in [Accounts -> rows]}

\* requests that have not arrived yet, for one account whose row is one of
\* `rows`, and room for n webhook calls
InitEvents(hs, rows, n) ==
    /\ handler \in hs
    /\ store \in Table(rows)
    /\ req = [r \in Reqs |-> IdleReq]
    /\ user = [r \in Reqs |-> "u1"]
    /\ now = WEEK
    /\ events = n
    /\ hook = NoDelivery
    /\ initial = store
    /\ local = NoLocal

InitWith(hs, rows) == InitEvents(hs, rows, MaxEvents)

Init == InitWith(AllHandlers, {NoRow} \cup FreeRows \cup ActiveProRows \cup ByokRows)

InitFree == InitWith(Handlers, FreeRows)

InitPro == InitWith(MeteringHandlers, ActiveProRows)

\* every version of the handler, the debug one included, and an account
\* with one trial credit left
InitStream ==
    InitWith(AllHandlers, {row \in FreeRows : row.credits_balance = 1})

\* the handlers of chat-proxy.ts:210-429 and of TECH_STACK.md:705-942, and
\* an account with one trial credit left
InitRelay ==
    InitWith({H_LEGACY, H_WEEKLY}, {row \in FreeRows : row.credits_balance = 1})

\* requests whose bodies carry any of the optional fields, against a free
\* account
InitParams ==
    /\ handler \in AllHandlers
    /\ store \in Table(FreeRows)
    /\ req \in [Reqs -> {[IdleReq EXCEPT !.model = m, !.max_tokens = t] :
                             m \in ModelHints, t \in TokenHints}]
    /\ user = [r \in Reqs |-> "u1"]
    /\ now = WEEK
    /\ events = MaxEvents
    /\ hook = NoDelivery
    /\ initial = store
    /\ local = NoLocal

\* requests whose usage-log insert will succeed or fail, against a trial
\* account with one credit
InitLog ==
    /\ handler \in AllHandlers
    /\ store \in Table({row \in FreeRows : row.credits_balance = 1})
    /\ req \in [Reqs -> {[IdleReq EXCEPT !.logOutcome = o] : o \in LogOutcomes}]
    /\ user = [r \in Reqs |-> "u1"]
    /\ now = WEEK
    /\ events = MaxEvents
    /\ hook = NoDelivery
    /\ initial = store
    /\ local = NoLocal

\* requests with a page text or a selection of any length, before their
\* system message is built by one of the three builders
InitContext ==
    /\ handler = H_FALLBACK
    /\ store \in Table({row \in FreeRows : row.credits_balance = 1})
    /\ req \in [Reqs -> UNION {{[IdleReq EXCEPT !.builder = b,
                                                !.contextType = t,
                                                !.contextLen = n] :
                                   t \in TypesTaken(b), n \in ContextLengths} :
                                 b \in Builders}]
    /\ user = [r \in Reqs |-> "u1"]
    /\ now = WEEK
    /\ events = MaxEvents
    /\ hook = NoDelivery
    /\ initial = store
    /\ local = NoLocal

\* users with or without a saved key, signed in or not, allowed by the
\* gate or not; the key passed to streamChatResponse is the saved one, or
\* none when it has not been loaded
InitClient ==
    /\ handler \in AllHandlers
    /\ store \in Table({row \in FreeRows : row.credits_balance = 1})
    /\ req \in [Reqs -> UNION {{[IdleReq EXCEPT !.storedKey = k, !.apiKey = p,
                                                !.allowed = g, !.token = t] :
                                   p \in {"", k}, g \in BOOLEAN,
                                   t \in SessionTokens} :
                                 k \in StoredKeys}]
    /\ user = [r \in Reqs |-> "u1"]
    /\ now = WEEK
    /\ events = MaxEvents
    /\ hook = NoDelivery
    /\ initial = store
    /\ local = NoLocal

\* requests whose rollback will succeed or fail, against trial accounts
\* with one credit and subscriptions at the start of a period
InitRollback ==
    /\ handler \in AllHandlers
    /\ store \in Table({row \in FreeRows : row.credits_balance = 1}
                               \cup {row \in ActiveProRows : row.usage_count = 0})
    /\ req \in [Reqs -> {[IdleReq EXCEPT !.rollbackOutcome = o] :
                             o \in RollbackOutcomes}]
    /\ user = [r \in Reqs |-> "u1"]
    /\ now = WEEK
    /\ events = MaxEvents
    /\ hook = NoDelivery
    /\ initial = store
    /\ local = NoLocal

\* trial accounts served by any version of the handler
InitSticky == InitWith(AllHandlers, FreeRows)

\* a trial account, or a subscriber, whose subscription will be cancelled:
\* room for the checkout event and the cancellation on top of the others
InitCancel ==
    InitEvents({H_WEEKLY},
               {row \in FreeRows : row.credits_balance = 1}
                 \cup {row \in ActiveProRows : row.usage_count = 0},
               MaxEvents + 1)

\* two accounts, each with a trial credit or each with a subscription at
\* the end of its period; the first request is authenticated as one
\* account, the others as the other
InitIsolation ==
    /\ handler \in {H_LEGACY, H_WEEKLY}
    /\ \E row \in {f \in FreeRows : f.credits_balance = 1}
                          \cup {s \in ActiveProRows : s.usage_count = 0} :
          store = [a \in AllAccounts |-> row]
    /\ req = [r \in Reqs |-> IdleReq]
    /\ user = [r \in Reqs |-> IF r = 1 THEN "u1" ELSE "u2"]
    /\ now = MaxNow
    /\ events = MaxEvents
    /\ hook = NoDelivery
    /\ initial = store
    /\ local = NoLocal

\* a subscription with some use, paid up or past due, at the end of its
\* period, served by the handler of TECH_STACK.md:705-942
InitPayment ==
    InitWith({H_WEEKLY}, {row \in ProRows : row.usage_count = 200})

\* the fragments the upstream can send to one request
FragmentSeqs == UNION {[1..n -> Fragments] : n \in 0..MaxChunks}

\* the event streams of the handlers, whole or cut short, and a stream that
\* goes on after [DONE]
EventStreams ==
    {RelayedAll(fs) \o tail :
        fs \in FragmentSeqs,
        tail \in {<<>>, <<DoneEvent, ContentEvent("a")>>}
                  \cup {ClosingEvents(h) : h \in AllHandlers}}

\* one call of proxyChatRequest, configured or not, signed in or not, with
\* any response
InitReader ==
    /\ handler = H_DEBUG
    /\ store \in Table({row \in FreeRows : row.credits_balance = 1})
    /\ \E t \in SessionTokens, ses \in Sessions, rsp \in Responses,
          code \in ErrorCodes, error \in Thrown \cup {""},
          es \in EventStreams, e \in Endings :
         /\ rsp # "http_error" => code = ""
         /\ error # "" <=> (rsp = "network_error" \/ e = "errored")
         /\ req = [r \in Reqs |->
                     IF r = 1
                     THEN [IdleReq EXCEPT
                             !.token = t,
                             !.call = [@ EXCEPT !.pc = "called",
                                                !.session = ses,
                                                !.response = rsp,
                                                !.code = code,
                                                !.error = error,
                                                !.sent = es,
                                                !.body = EncodeAll(es),
                                                !.ending = e]]
                     ELSE IdleReq]
    /\ user = [r \in Reqs |-> "u1"]
    /\ now = WEEK
    /\ events = MaxEvents
    /\ hook = NoDelivery
    /\ initial = store
    /\ local = NoLocal

\* the trial counts local storage can hold at the start
TrialCounts == {NULL, 0, TRIAL_LIMIT - 1, TRIAL_LIMIT}

\* users with or without a license and a key, signed in or not, at the
\* start, near the end and at the end of the local trial
InitTrial ==
    /\ handler = H_DEBUG
    /\ store \in Table({row \in FreeRows : row.credits_balance = 1})
    /\ req \in [Reqs -> {[IdleReq EXCEPT !.gate = "unchecked", !.apiKey = k,
                                          !.storedKey = k, !.token = t] :
                             k \in StoredKeys, t \in SessionTokens}]
    /\ user = [r \in Reqs |-> "u1"]
    /\ now = WEEK
    /\ events = MaxEvents
    /\ hook = NoDelivery
    /\ initial = store
    /\ local \in [usageCount : TrialCounts, hasLicense : BOOLEAN]

\* a sync and a chat call from each page of the extension, signed in or
\* not, for an account of any plan or with no row, over the local state of
\* a new user or of a used-up trial, with or without the license flag
InitSync ==
    /\ handler = H_DEBUG
    /\ store \in Table({NoRow} \cup FreeRows \cup ByokRows
                          \cup {row \in ProRows : row.usage_count = 0})
    /\ req \in [Reqs -> {[IdleReq EXCEPT !.sync.pc = "idle", !.token = t,
                                          !.gate = "unchecked"] :
                             t \in SessionTokens}]
    /\ user = [r \in Reqs |-> "u1"]
    /\ now = WEEK
    /\ events = MaxEvents
    /\ hook = NoDelivery
    /\ initial = store
    /\ local \in [usageCount : {NULL, TRIAL_LIMIT}, hasLicense : BOOLEAN]

\* the active tabs a query can find
Tabs ==
    [id : {TRUE}, url : {"https://", "chrome://", "about:", ""},
     status : {"loading", "complete"}]
      \cup {[id |-> FALSE, url |-> "", status |-> "complete"]}

\* the retry limits a caller passes
RetryLimits == 0..DEFAULT_MAX_RETRIES

\* a call from the side panel for any tab and any retry limit, and calls with
\* one retry for a page or a browser page that has loaded
InitSend ==
    /\ handler = H_DEBUG
    /\ store \in Table({NoRow})
    /\ req \in [Reqs -> {[IdleReq EXCEPT !.send.pc = "idle", !.send.query = k,
                                          !.send.activeTab = t,
                                          !.send.maxRetries = m] :
                             k \in {"ok", "throws"}, t \in Tabs,
                             m \in RetryLimits}]
    /\ \A r \in Reqs \ {1} :
          /\ req[r].send.query = "ok"
          /\ req[r].send.maxRetries = 1
          /\ req[r].send.activeTab.id
          /\ req[r].send.activeTab.status = "complete"
          /\ req[r].send.activeTab.url \in {"https://", "chrome://"}
    /\ user = [r \in Reqs |-> "u1"]
    /\ now = WEEK
    /\ events = MaxEvents
    /\ hook = NoDelivery
    /\ initial = store
    /\ local = NoLocal

\* accounts that have no row yet, served by the handler of
\* chat-proxy.ts:210-429 and by the one of TECH_STACK.md:383-590
InitCreate == InitWith({H_LEGACY, H_ATOMIC}, {NoRow})

\* accounts of every kind, served by the handlers of chat-proxy.ts
InitPlans ==
    InitWith({H_FALLBACK, H_LEGACY},
             {NoRow} \cup {row \in FreeRows : row.credits_balance = 1}
                     \cup {row \in ProRows : row.usage_count = 0}
                     \cup ByokRows)

\* subscriptions at the weekly limit or one request below it
InitLimit ==
    InitWith(MeteringHandlers,
             {row \in ActiveProRows : row.usage_count >= WEEKLY_LIMIT - 1})

\* the handlers of chat-proxy.ts, and an account with its last trial
\* credit or with a subscription at the start of a billing period
InitCredits ==
    InitEvents({H_FALLBACK, H_LEGACY},
               {row \in FreeRows : row.credits_balance = 1}
                 \cup {row \in ActiveProRows : row.usage_count = 0},
               MaxEvents + 1)

\* accounts of every kind, when no request is made
InitHook ==
    InitEvents({H_WEEKLY},
               {NoRow} \cup {row \in FreeRows : row.credits_balance = 1}
                       \cup {row \in ProRows : row.usage_count = 0}
                       \cup ByokRows,
               MaxEvents + 1)

----------------------------------------------------------------------------
(* Next-state relations *)

\* the steps of a request on the free plan
FreeStep(r) ==
    \/ Unauthorized(r)
    \/ FallbackSelect(r) \/ FallbackDeductRpc(r) \/ FallbackDeductFallback(r)
    \/ FallbackUpstream(r)
    \/ LegacySelect(r) \/ LegacyCharge(r) \/ LegacyUpstream(r) \/ LegacyRollback(r)
    \/ WeeklySelect(r) \/ WeeklyCharge(r) \/ WeeklyUpstream(r) \/ WeeklyRollback(r)
    \/ AtomicSelect(r) \/ AtomicDeductRpc(r) \/ AtomicDeductRpcError(r)
    \/ AtomicUpstream(r)

\* the steps of a request on the free plan in the handlers of
\* chat-proxy.ts:210-429 and of TECH_STACK.md:705-942
RelayStep(r) ==
    \/ Unauthorized(r)
    \/ LegacySelect(r) \/ LegacyCharge(r) \/ LegacyUpstream(r) \/ LegacyRollback(r)
    \/ WeeklySelect(r) \/ WeeklyCharge(r) \/ WeeklyUpstream(r) \/ WeeklyRollback(r)

\* the steps of a request on a metered subscription
ProStep(r) ==
    \/ Unauthorized(r)
    \/ FallbackSelect(r) \/ FallbackReset(r) \/ FallbackIncRpc(r)
    \/ FallbackIncFallback(r) \/ FallbackUpstream(r)
    \/ WeeklySelect(r) \/ WeeklyReset(r) \/ WeeklyInc(r) \/ WeeklyUpstream(r)
    \/ WeeklyRollback(r)
    \/ AtomicSelect(r) \/ AtomicResetRpc(r) \/ AtomicResetRpcError(r)
    \/ AtomicIncRpc(r) \/ AtomicIncRpcError(r) \/ AtomicUpstream(r)

\* the usage increments of a request within the period
MeterStep(r) ==
    \/ FallbackIncRpc(r) \/ FallbackIncFallback(r)
    \/ WeeklyInc(r)
    \/ AtomicIncRpc(r) \/ AtomicIncRpcError(r)

\* the remaining steps: row creation
CreateStep(r) == LegacyInsert(r) \/ WeeklyInsert(r) \/ AtomicInsert(r)

\* the relay of the upstream stream to the caller
StreamStep(r) == StreamChunk(r) \/ StreamEnd(r) \/ StreamError(r)

\* the answers given before authentication
EntryStep(r) == Preflight(r) \/ MethodNotAllowed(r)

NextFree == \E r \in Reqs : FreeStep(r)

\* requests on the free plan and the streams of those that are served
NextStream == \E r \in Reqs : FreeStep(r) \/ StreamStep(r)

\* the same for the two handlers whose relay loop is cited
NextRelay == \E r \in Reqs : RelayStep(r) \/ StreamStep(r)

\* requests of any method, with any Authorization header or none, on the
\* free plan
NextEntry == \E r \in Reqs : EntryStep(r) \/ FreeStep(r) \/ FallbackNotBearer(r)

NextPro == (\E r \in Reqs : ProStep(r)) \/ Tick

\* requests that may have to create their row, and checkout events (the
\* one webhook event that writes with an upsert)
NextCreate ==
    \/ \E r \in Reqs :
         \/ Unauthorized(r)
         \/ LegacySelect(r) \/ LegacyInsert(r) \/ LegacyCharge(r)
         \/ LegacyUpstream(r) \/ LegacyRollback(r)
         \/ AtomicSelect(r) \/ AtomicInsert(r) \/ AtomicDeductRpc(r)
         \/ AtomicDeductRpcError(r) \/ AtomicIncRpc(r)
         \/ AtomicIncRpcError(r) \/ AtomicUpstream(r)
    \/ \E k \in Calls : \/ \E a \in Accounts : Checkout(k, a)
                         \/ HookLogInsert(k)

\* the steps of a request to the handlers of chat-proxy.ts while the clock
\* stands within the period
SourceStep(r) ==
    \/ Unauthorized(r)
    \/ FallbackSelect(r) \/ FallbackDeductRpc(r) \/ FallbackDeductFallback(r)
    \/ FallbackIncRpc(r) \/ FallbackIncFallback(r) \/ FallbackUpstream(r)
    \/ LegacySelect(r) \/ LegacyCharge(r) \/ LegacyUpstream(r)
    \/ LegacyRollback(r)

\* the steps of a request to the handler of TECH_STACK.md:705-942 while
\* the clock stands within the period
WeeklyStep(r) ==
    \/ Unauthorized(r)
    \/ WeeklySelect(r) \/ WeeklyCharge(r) \/ WeeklyInc(r)
    \/ WeeklyUpstream(r) \/ WeeklyRollback(r)

\* the webhook events that write plan_type or credits_balance: a checkout
\* and a cancellation
PlanEvents ==
    \E k \in Calls : \/ \E a \in Accounts : Checkout(k, a) \/ Cancellation(k, a)
                     \/ HookLogInsert(k)

\* requests to the handlers of chat-proxy.ts and the webhook events that
\* write the plan or the balance
NextCredits == (\E r \in Reqs : SourceStep(r)) \/ PlanEvents

\* requests to the handlers of chat-proxy.ts, with the creation of the row
NextPlans == \E r \in Reqs : SourceStep(r) \/ LegacyInsert(r)

\* requests to the handler of TECH_STACK.md:705-942 and the same events
NextCancel == (\E r \in Reqs : WeeklyStep(r)) \/ PlanEvents

\* trial requests, their streams, and upstreams that fall silent
NextLive == \E r \in Reqs : FreeStep(r) \/ StreamStep(r) \/ UpstreamStalls(r)

\* trial requests and the end of their streams
NextLog == \E r \in Reqs : FreeStep(r) \/ StreamEnd(r)

\* trial and subscription requests within the period
NextRollback == \E r \in Reqs : FreeStep(r) \/ MeterStep(r)

\* requests of either account, with its charge, its reset and its
\* rollback, and the webhook events of every kind, resolved to either
NextIsolation ==
    \/ \E r \in Reqs :
         \/ Unauthorized(r)
         \/ LegacySelect(r) \/ LegacyCharge(r)
         \/ LegacyUpstream(r) \/ LegacyRollback(r)
         \/ WeeklySelect(r) \/ WeeklyReset(r)
         \/ WeeklyCharge(r) \/ WeeklyInc(r) \/ WeeklyUpstream(r)
         \/ WeeklyRollback(r)
    \/ \E k \in Calls : \/ \E a \in AllAccounts : WebhookFor(k, a)
                         \/ HookLogInsert(k)

\* requests on a subscription, within its period or after it, and the
\* webhook events of every kind
NextPayment ==
    \/ \E r \in Reqs :
         \/ Unauthorized(r)
         \/ WeeklySelect(r) \/ WeeklyReset(r) \/ WeeklyInc(r)
         \/ WeeklyUpstream(r) \/ WeeklyRollback(r)
    \/ \E k \in Calls : \/ \E a \in Accounts : WebhookFor(k, a)
                         \/ HookLogInsert(k)
    \/ Tick

\* the steps of a call of proxyChatRequest
NextReader ==
    \E r \in Reqs : \/ ProxyChatRequest(r)
                     \/ ReaderRead(r)
                     \/ ReaderDone(r)
                     \/ ReaderThrows(r)

\* calls of streamChatResponse from the pages of the extension, and the
\* paywall
NextTrial ==
    \/ \E r \in Reqs : \/ GetTrialUsageCount(r)
                        \/ CheckAccessPermission(r)
                        \/ StreamChatResponse(r)
                        \/ TransportFails(r)
                        \/ TransportCompletes(r)
                        \/ IncrementTrialUsageGet(r)
                        \/ IncrementTrialUsageSet(r)
    \/ SetLicenseStatus(TRUE)

\* calls of syncSubscriptionFromServer from the pages of the extension,
\* beside everything else that writes to local storage
NextSync ==
    \/ \E r \in Reqs : \/ SyncFetch(r)
                        \/ SyncSetLicense(r)
                        \/ SyncSetUsage(r)
                        \/ SyncReturnUsageCount(r)
                        \/ SyncReturn(r)
    \/ NextTrial

\* calls of sendMessageToActiveTab
SendStep(r) == TabsQuery(r) \/ SendMessage(r) \/ RetryTimer(r)

NextSend == \E r \in Reqs : SendStep(r)

NextContext == \E r \in Reqs : BuildSystemMessage(r)

NextClient == \E r \in Reqs : StreamChatResponse(r)

\* webhook calls, verified or refused
NextHook ==
    \/ Webhook
    \/ \E k \in Calls : WebhookRefused(k) \/ WebhookMethodNotAllowed(k)

Next ==
    \/ \E r \in Reqs : EntryStep(r) \/ FreeStep(r) \/ ProStep(r) \/ CreateStep(r) \/ StreamStep(r)
    \/ \E r \in Reqs : FallbackNotBearer(r)
    \/ Webhook
    \/ \E k \in Calls : WebhookRefused(k) \/ WebhookMethodNotAllowed(k)
    \/ Tick

Spec == Init /\ [][Next]_vars

SpecFree == InitFree /\ [][NextFree]_vars

SpecEntry == InitFree /\ [][NextEntry]_vars

SpecStream == InitStream /\ [][NextStream]_vars

SpecRelay == InitRelay /\ [][NextRelay]_vars

SpecParams == InitParams /\ [][NextFree]_vars

\* every step that can be taken is taken in the end: the handler's code
\* runs on, and an upstream that has not fallen silent sends its next chunk,
\* its end or its error
SpecLive == InitStream /\ [][NextLive]_vars /\ WF_vars(NextLive)

SpecLog == InitLog /\ [][NextLog]_vars

SpecRollback == InitRollback /\ [][NextRollback]_vars

SpecIsolation == InitIsolation /\ [][NextIsolation]_vars

SpecPayment == InitPayment /\ [][NextPayment]_vars

SpecReader == InitReader /\ [][NextReader]_vars

SpecTrial == InitTrial /\ [][NextTrial]_vars

SpecSync == InitSync /\ [][NextSync]_vars

\* every awaited call of sendMessageToActiveTab settles: the query and the
\* send end with a value or an error, and the timer fires
SpecSend ==
    InitSend /\ [][NextSend]_vars /\ \A r \in Reqs : WF_vars(SendStep(r))

SpecContext == InitContext /\ [][NextContext]_vars

SpecClient == InitClient /\ [][NextClient]_vars

\* requests on the free plan, to any version of the handler
NextSticky == \E r \in Reqs : FreeStep(r)

SpecSticky == InitSticky /\ [][NextSticky]_vars

SpecCancel == InitCancel /\ [][NextCancel]_vars

SpecHook == InitHook /\ [][NextHook]_vars

SpecPro == InitPro /\ [][NextPro]_vars

SpecCredits == InitCredits /\ [][NextCredits]_vars

SpecCreate == InitCreate /\ [][NextCreate]_vars

SpecPlans == InitPlans /\ [][NextPlans]_vars

SpecLimit == InitLimit /\ [][NextPro]_vars

----------------------------------------------------------------------------
(* Vocabulary of the properties *)

\* the row of the one account the requests are authenticated as
Ledger == store["u1"]

Start == initial["u1"]

\* no request is being handled
Quiet == \A r \in Reqs : ~InFlight(r)

\* the request was answered 200 with the event stream
Served(r) == Terminal(r) /\ req[r].status = 200

DeniedWith(r, code) == Terminal(r) /\ req[r].code = code

\* request r takes its first step past authentication (it reads its row)
SelectStep(r) ==
    /\ req[r].pc = "idle"
    /\ req'[r].pc # "idle"
    /\ req'[r].method = "POST"
    /\ req'[r].credentials = "valid"

\* request r applies its charge to the ledger
ChargeStep(r) == ~req[r].charged /\ req'[r].charged

\* the response of request r is returned
ResponseStep(r) == req[r].pc # "done" /\ req'[r].pc = "done"

----------------------------------------------------------------------------
(* Properties of the free-trial ledger *)

\* C1. No double-spend: when every one of the N requests against a free
\* account that started with k < N credits has been answered, each either
\* served or denied for exhausted credits, exactly k were served (forwarded
\* upstream), N - k were denied with CREDITS_EXHAUSTED, and the balance is 0.
C1_NoDoubleSpend ==
    LET k == Start.credits_balance
        served == {r \in Reqs : Served(r) /\ req[r].forwarded}
        denied == {r \in Reqs : DeniedWith(r, "CREDITS_EXHAUSTED")}
    IN  ( /\ Start.plan_type = "free"
          /\ k < NumReqs
          /\ \A r \in Reqs : r \in served \/ r \in denied )
        => ( /\ Cardinality(served) = k
             /\ Cardinality(denied) = NumReqs - k
             /\ Ledger.credits_balance = 0 )

\* C2. Charge-before-call: a request that has been forwarded to the upstream
\* completion API has had a ledger mutation of its own succeed in the store.
C2_ChargeBeforeCall ==
    \A r \in Reqs : req[r].forwarded => req[r].charged

\* C3. Rollback restores balance: when the response of a free-plan request
\* that ran alone, was charged (n -> n-1) and whose upstream call failed is
\* returned, credits_balance is n again.
C3_RollbackRestoresBalance ==
    [][ \A r \in Reqs :
          ( /\ ResponseStep(r)
            /\ req[r].charged
            /\ req'[r].upstream = "failed"
            /\ req[r].sub.plan_type = "free"
            /\ \A o \in Reqs \ {r} : req[o].pc = "idle" )
          => store'[Acct(r)].credits_balance = req[r].before ]_vars

\* C4. A rollback never erases a concurrent charge: when, of the requests
\* against a free account that started with k credits, exactly one was
\* charged and served and exactly one was charged, failed upstream and was
\* rolled back, and no other request touched the ledger, the balance is k-1.
C4_RollbackKeepsConcurrentCharge ==
    LET k == Start.credits_balance
        served == {r \in Reqs : Served(r) /\ req[r].charged}
        undone == {r \in Reqs : Terminal(r) /\ req[r].rolledBack}
        others == {r \in Reqs : req[r].charged} \ (served \cup undone)
    IN  ( /\ Start.plan_type = "free"
          /\ Quiet
          /\ Cardinality(served) = 1
          /\ Cardinality(undone) = 1
          /\ others = {} )
        => Ledger.credits_balance = k - 1

----------------------------------------------------------------------------
(* Properties of the weekly usage meter *)

ActivePro(row) ==
    /\ row.exists
    /\ row.plan_type = "pro_subscription"
    /\ row.subscription_status = "active"

\* C6. Within one period the requests allowed and charged against an active
\* subscription never take usage_count past WEEKLY_LIMIT: the stored count
\* is at most WEEKLY_LIMIT, and so is the count at the start of the period
\* plus the number of requests charged in it.
C6_LimitNeverPassed ==
    LET charges == {r \in Reqs : req[r].charged /\ ~req[r].rolledBack}
    IN  ActivePro(Start)
        => /\ OrZero(Ledger.usage_count) <= WEEKLY_LIMIT
           /\ ~ResetSinceStart("u1")
                => Start.usage_count + Cardinality(charges) <= WEEKLY_LIMIT

\* C7. Period reset then charge: a request that reads an active subscription
\* row whose period has elapsed goes on to reset it, whatever usage_count is;
\* when it ran alone its charge leaves usage_count = 1 in the new period;
\* the charge of a request that follows it (it read the row the first one
\* left, and did not reset) leaves usage_count = 2.
C7_ResetThenCharge ==
    [][ \A r \in Reqs :
          LET row == store[Acct(r)]
              others == Reqs \ {r}
          IN  /\ ( /\ SelectStep(r)
                    /\ ActivePro(row)
                    /\ PeriodElapsed(row.last_reset_at, now) )
                  => req'[r].pc \in {"reset", "reset_rpc"}
              /\ ( /\ ChargeStep(r)
                    /\ req[r].didReset
                    /\ \A o \in others : req[o].pc = "idle" )
                  => /\ store'[Acct(r)].usage_count = 1
                     /\ store'[Acct(r)].last_reset_at # initial[Acct(r)].last_reset_at
              /\ ( /\ ChargeStep(r)
                    /\ ~req[r].didReset
                    /\ req[r].sub.usage_count = row.usage_count
                    /\ others # {}
                    /\ \A o \in others : Served(o) /\ req[o].didReset /\ req[o].charged )
                  => store'[Acct(r)].usage_count = 2 ]_vars

\* C8. When the requests against a subscription whose period has elapsed have
\* all finished (none of them rolled back), the reset was applied by exactly
\* one of them and usage_count is the number of requests charged since the
\* reset.
C8_ResetOnceNoLostIncrement ==
    LET resets == {r \in Reqs : req[r].didReset}
        charges == {r \in Reqs : req[r].charged /\ req[r].sinceReset}
    IN  ( /\ ActivePro(Start)
          /\ Quiet
          /\ resets # {}
          /\ \A r \in Reqs : ~req[r].rolledBack )
        => /\ Cardinality(resets) = 1
           /\ Ledger.usage_count = Cardinality(charges)

\* C9. Limit boundary, within an unexpired period of an active subscription:
\* a request that reads usage_count = WEEKLY_LIMIT is answered 429
\* WEEKLY_LIMIT_REACHED at once, with the row unchanged and no upstream
\* call, and nothing happens for it afterwards; a request that reads
\* usage_count = WEEKLY_LIMIT - 1 goes on to its charge, and its charge on
\* the row it read leaves usage_count = WEEKLY_LIMIT.
C9_LimitBoundary ==
    [][ \A r \in Reqs :
          LET row == store[Acct(r)]
              fresh == ActivePro(row) /\ ~PeriodElapsed(row.last_reset_at, now)
          IN  /\ (SelectStep(r) /\ fresh /\ row.usage_count = WEEKLY_LIMIT)
                  => /\ req'[r].pc = "done"
                     /\ req'[r].status = 429
                     /\ req'[r].code = "WEEKLY_LIMIT_REACHED"
                     /\ ~req'[r].forwarded
                     /\ store' = store
              /\ req[r].code = "WEEKLY_LIMIT_REACHED" => req'[r] = req[r]
              /\ (SelectStep(r) /\ fresh /\ row.usage_count = WEEKLY_LIMIT - 1)
                  => req'[r].pc \in {"inc", "inc_rpc"}
              /\ ( /\ ChargeStep(r)
                    /\ ~req[r].didReset
                    /\ req[r].sub.usage_count = WEEKLY_LIMIT - 1
                    /\ row.usage_count = WEEKLY_LIMIT - 1 )
                  => store'[Acct(r)].usage_count = WEEKLY_LIMIT ]_vars

\* one request took the count from WEEKLY_LIMIT - 1 to WEEKLY_LIMIT and was
\* served, another was then denied
C9_Witness ==
    /\ ActivePro(Start)
    /\ Start.usage_count = WEEKLY_LIMIT - 1
    /\ ~ResetSinceStart("u1")
    /\ \E r \in Reqs : Served(r) /\ req[r].charged /\ req[r].forwarded
    /\ \E r \in Reqs : /\ DeniedWith(r, "WEEKLY_LIMIT_REACHED")
                        /\ req[r].status = 429
                        /\ ~req[r].forwarded
    /\ Ledger.usage_count = WEEKLY_LIMIT

----------------------------------------------------------------------------
(* Properties of the plan gate *)

\* C10. BYOK short-circuit: a request that reads a byok_license row is
\* answered 403 USE_OWN_KEY at once, whatever the other columns hold, with
\* the row unchanged and no upstream call.
C10_ByokShortCircuit ==
    [][ \A r \in Reqs :
          LET row == store[Acct(r)]
          IN  (SelectStep(r) /\ row.exists /\ row.plan_type = "byok_license")
              => /\ req'[r].pc = "done"
                 /\ req'[r].status = 403
                 /\ req'[r].code = "USE_OWN_KEY"
                 /\ ~req'[r].forwarded
                 /\ store' = store ]_vars

\* C11. A request that reads a pro_subscription row whose subscription_status
\* is not active is answered 403 SUBSCRIPTION_INACTIVE at once, with the row
\* (usage_count and last_reset_at included) unchanged and no upstream call,
\* and nothing happens for it afterwards.
C11_InactiveDenied ==
    [][ \A r \in Reqs :
          LET row == store[Acct(r)]
          IN  /\ ( /\ SelectStep(r)
                    /\ row.exists
                    /\ row.plan_type = "pro_subscription"
                    /\ row.subscription_status # "active" )
                  => /\ req'[r].pc = "done"
                     /\ req'[r].status = 403
                     /\ req'[r].code = "SUBSCRIPTION_INACTIVE"
                     /\ ~req'[r].forwarded
                     /\ store' = store
              /\ req[r].code = "SUBSCRIPTION_INACTIVE" => req'[r] = req[r] ]_vars

\* C12. Ledger race loss: when the deduct_credit call of a request that
\* passed the credits_balance > 0 check returns without error and reports
\* that no row was updated, the request is answered with CREDITS_EXHAUSTED
\* at once, is not forwarded upstream, and nothing happens for it afterwards.
C12_RaceLossDenied ==
    [][ \A r \in Reqs :
          /\ ( /\ (FallbackDeductRpc(r) \/ AtomicDeductRpc(r))
                /\ DeductCreditResult(store[Acct(r)]) = -1 )
              => /\ req'[r].pc = "done"
                 /\ req'[r].code = "CREDITS_EXHAUSTED"
                 /\ ~req'[r].forwarded
                 /\ store' = store
          /\ req[r].code = "CREDITS_EXHAUSTED" => req'[r] = req[r] ]_vars

\* C13. Subscription rollback: when the response of a subscription request
\* that ran alone, was charged and whose upstream call failed is returned,
\* usage_count is what it was right before that request's increment (0 when
\* the request had reset the period) and last_reset_at is left as it is.
C13_SubscriptionRollback ==
    [][ \A r \in Reqs :
          ( /\ ResponseStep(r)
            /\ req[r].charged
            /\ req'[r].upstream = "failed"
            /\ req[r].sub.plan_type = "pro_subscription"
            /\ \A o \in Reqs \ {r} : req[o].pc = "idle" )
          => /\ store'[Acct(r)].usage_count = req[r].before
             /\ store'[Acct(r)].last_reset_at = store[Acct(r)].last_reset_at ]_vars

----------------------------------------------------------------------------
(* Properties of the request checks *)

\* C14. When a request that ran alone is answered 400 (invalid JSON body, or
\* messages missing, not an array or empty), no upstream call was made for
\* it and the row of its account is what it was before the request.
C14_BadRequestNoCharge ==
    [][ \A r \in Reqs :
          ( /\ ResponseStep(r)
            /\ req'[r].status = 400
            /\ \A o \in Reqs \ {r} : req[o].pc = "idle" )
          => /\ ~req'[r].forwarded
             /\ store' = initial ]_vars

\* the first step of request r
FirstStep(r) == req[r].pc = "idle" /\ req'[r].pc # "idle"

\* request r is answered at once and has touched nothing: the row of its
\* account was not read, nothing was written, no upstream call, no usage log
Untouched(r) ==
    /\ req'[r].pc = "done"
    /\ req'[r].sub = Snapshot(NoRow)
    /\ ~req'[r].charged
    /\ ~req'[r].forwarded
    /\ ~req'[r].logged
    /\ store' = store

\* C15. A request of any method but OPTIONS whose Authorization header is
\* missing or whose bearer token the identity provider rejects is answered
\* 401 at once, without a read or a write of a row, without a usage-log
\* entry and without an upstream call.
C15_NonOptionsUnauthorized ==
    [][ \A r \in Reqs :
          ( /\ FirstStep(r)
            /\ req'[r].method # "OPTIONS"
            /\ req'[r].credentials \in {"missing", "rejected"} )
          => (req'[r].status = 401 /\ Untouched(r)) ]_vars

----------------------------------------------------------------------------
(* Properties of row creation *)

\* C16. Lazy creation: a request that finds no row for its account goes on
\* to insert the default row (free, credits_balance 5, usage_count 0) and
\* is evaluated against it: it goes on to its charge, and when it is the
\* first request of the account its charge leaves credits_balance = 4.
C16_LazyCreation ==
    [][ \A r \in Reqs :
          LET a == Acct(r) IN
          /\ (SelectStep(r) /\ ~store[a].exists)
              => req'[r].pc = "insert"
          /\ (req[r].pc = "insert" /\ req'[r].pc # "insert" /\ ~store[a].exists)
              => /\ store'[a].exists
                 /\ store'[a].plan_type = "free"
                 /\ store'[a].credits_balance = TRIAL_CREDITS
                 /\ store'[a].usage_count = 0
                 /\ req'[r].pc \in {"charge", "deduct_rpc"}
          /\ ( /\ ChargeStep(r)
                /\ ~initial[a].exists
                /\ hook = NoDelivery
                /\ \A o \in Reqs \ {r} : req[o].pc = "idle" )
              => store'[a].credits_balance = TRIAL_CREDITS - 1 ]_vars

\* C31. Racing first requests are both evaluated: a request that found no
\* row and went to create it is evaluated against the default row (allowed
\* and charged, or denied by an entitlement rule) and is never answered 500
\* because another request, or a checkout, created the row first.
C31_CreationRaceNo500 ==
    [][ \A r \in Reqs :
          (req[r].pc = "insert" /\ req'[r].pc # "insert")
          => ~(req'[r].pc = "done" /\ req'[r].status = 500) ]_vars

\* C17. In every reachable state the table holds at most one row per
\* account (exactly one when the account has a row), also when first
\* requests of the account and a checkout webhook race to create it.
C17_OneRowPerAccount ==
    \A a \in Accounts :
      /\ store[a].copies <= 1
      /\ store[a].exists <=> store[a].copies = 1

\* two first requests raced: both found no row, one inserted it and the
\* insert of the other was refused
C17_Witness ==
    /\ ~Start.exists
    /\ hook = NoDelivery
    /\ Ledger.exists
    /\ Ledger.copies = 1
    /\ \E r \in Reqs : Terminal(r) /\ req[r].charged
    /\ \E r \in Reqs : /\ Terminal(r) /\ req[r].status = 500
                        /\ ~req[r].charged /\ ~req[r].forwarded
    /\ handler = H_LEGACY

----------------------------------------------------------------------------
(* Properties of the relayed stream *)

RECURSIVE ContentEvents(_)
\* one content event per non-empty fragment, in the order of the fragments
ContentEvents(fs) ==
    IF fs = <<>> THEN <<>>
    ELSE (IF Head(fs) # "" THEN <<ContentEvent(Head(fs))>> ELSE <<>>)
         \o ContentEvents(Tail(fs))

\* C18. While the stream of a served request is open the caller has been
\* sent exactly one content event per non-empty fragment read from upstream,
\* in upstream order (each before the next fragment is read); once it is
\* closed these are followed by exactly one [DONE] event and nothing else.
C18_StreamOrder ==
    \A r \in Reqs :
      /\ req[r].stream = "open" => req[r].out = ContentEvents(req[r].read)
      /\ req[r].stream = "closed"
          => req[r].out = ContentEvents(req[r].read) \o <<DoneEvent>>
      /\ req[r].stream = "none" => req[r].out = <<>>

\* the upstream stream of request r fails
FailureStep(r) == req[r].stream = "open" /\ req'[r].stream = "errored"

\* C19. Mid-stream failure: when the upstream stream of a request fails after
\* at least one fragment was relayed, the events already sent stay as they
\* are and no [DONE] event is added, the response stream is in error, the
\* ledger is not written and the request's charge stays applied; the request
\* does nothing more afterwards.
C19_MidStreamFailure ==
    [][ \A r \in Reqs :
          /\ (FailureStep(r) /\ Len(req[r].out) >= 1)
             => /\ req'[r].out = req[r].out
                /\ \A i \in 1..Len(req'[r].out) : req'[r].out[i] # DoneEvent
                /\ store' = store
                /\ req'[r].charged = req[r].charged
                /\ ~req'[r].rolledBack
          /\ req[r].stream = "errored" => req'[r] = req[r] ]_vars

\* a charged request relayed a fragment and then lost its upstream stream;
\* the credit it took is still taken
C19_Witness ==
    \E r \in Reqs :
      /\ req[r].stream = "errored"
      /\ Len(req[r].out) >= 1
      /\ req[r].charged
      /\ ~req[r].rolledBack
      /\ Ledger.credits_balance = Start.credits_balance - 1

----------------------------------------------------------------------------
(* Properties of the upstream call *)

\* C20. The model and the token cap sent upstream are the same for every
\* proxied request, whatever the model and max_tokens fields of its body:
\* any two requests that were forwarded were sent with the same model and
\* the same max_tokens.
C20_FixedUpstreamParams ==
    \A r, o \in Reqs :
      (req[r].forwarded /\ req[o].forwarded)
      => /\ req[r].sentModel = req[o].sentModel
         /\ req[r].sentMaxTokens = req[o].sentMaxTokens

----------------------------------------------------------------------------
(* Properties of the payment webhook *)

\* the last webhook call was a subscription deletion, its update of the
\* row has been applied, and no other call is being handled or was
\* answered since
Cancelled ==
    \E k \in Calls :
      /\ hook[k].type = "customer.subscription.deleted"
      /\ hook[k].account \in Accounts
      /\ hook[k].pc = "log" \/ hook[k].status = 200
      /\ \A j \in Calls \ {k} : hook[j] = NoCall

\* C21. A subscription-deleted event never deletes the row: the row it finds
\* is left in place with plan_type free, credits_balance 0 and the
\* subscription reference and the period end cleared; and as long as no
\* other webhook event has been handled since, every request that reads
\* the row is answered CREDITS_EXHAUSTED at once, without a charge and
\* without a call upstream.
C21_CancelledStaysDenied ==
    [][ /\ Cancelled' /\ ~Cancelled
           => \A a \in Accounts :
                store[a].exists
                => /\ store'[a].exists
                   /\ store'[a].copies = store[a].copies
                   /\ store'[a].plan_type = "free"
                   /\ store'[a].credits_balance = 0
                   /\ ~store'[a].stripe_subscription_id
                   /\ ~store'[a].current_period_end
        /\ \A r \in Reqs :
             (SelectStep(r) /\ Cancelled)
             => /\ req'[r].pc = "done"
                /\ req'[r].code = "CREDITS_EXHAUSTED"
                /\ ~req'[r].charged
                /\ ~req'[r].forwarded
                /\ store' = store ]_vars

\* a step of the handling of a webhook call by invocation k: the call
\* arrives, or goes on
HookStep(k) ==
    \/ events' # events /\ Idle(k) /\ \A j \in Calls : j < k => ~Idle(j)
    \/ hook'[k] # hook[k] /\ hook'[k] # Answered

\* the signature of the call was verified by constructEvent
Verified(call) == call.signature = "valid" /\ call.type # "not POST"

\* C22. A webhook call whose stripe-signature header is missing or fails
\* verification is answered with an error status, leaves every row of
\* user_subscriptions as it was and appends no usage-log entry; a webhook
\* call that changes a row had its signature verified.
C22_UnverifiedChangesNothing ==
    [][ \A k \in Calls :
          HookStep(k)
          => /\ hook'[k].signature \in BadSignatures
                => /\ hook'[k].status >= 400
                   /\ store' = store
                   /\ ~hook'[k].logged
             /\ store' # store => Verified(hook'[k]) ]_vars

\* a call with a bad signature was refused while a verified call for the
\* account, found by its customer id, was waiting for its update
C22_Witness ==
    \E k \in Calls :
      /\ hook[k].signature \in BadSignatures
      /\ hook[k].status = 400
      /\ \E j \in Calls : hook[j].pc = "update" /\ hook[j].account = "u1"
      /\ FoundByCustomer("u1")
      /\ store = initial

\* C23. The unlimited marker is never decremented: no step of a request
\* changes a stored credits_balance of -1, and no step of a request writes
\* a credits_balance below -1, whatever the plan of the row.
C23_UnlimitedNeverDecremented ==
    [][ \A a \in Accounts :
          (req' # req /\ store[a].exists)
          => /\ store[a].credits_balance = UNLIMITED
                => store'[a].credits_balance = UNLIMITED
             /\ store'[a].credits_balance # store[a].credits_balance
                => store'[a].credits_balance >= UNLIMITED ]_vars

\* C24. Exhaustion is sticky: once a served request has taken the last credit
\* of a free account (balance 0) and no request of the account is in flight,
\* a request that arrives is denied CREDITS_EXHAUSTED with
\* credits_remaining 0 at once, is not charged, makes no upstream call and
\* leaves the balance at 0.
C24_ExhaustionSticky ==
    [][ \A r \in Reqs :
          ( /\ SelectStep(r)
            /\ Quiet
            /\ Start.credits_balance >= 1
            /\ Ledger.plan_type = "free"
            /\ Ledger.credits_balance = 0
            /\ \E o \in Reqs : Served(o) /\ req[o].charged )
          => /\ req'[r].pc = "done"
             /\ req'[r].code = "CREDITS_EXHAUSTED"
             /\ req'[r].credits_remaining = 0
             /\ ~req'[r].charged
             /\ ~req'[r].forwarded
             /\ store' = store ]_vars

\* C27. Every request that was answered with a stream reaches a terminal
\* outcome in the end, the stream closed after [DONE] or the stream in
\* error, also when the upstream stops sending chunks without closing.
C27_StreamTerminates ==
    \A r \in Reqs :
      (req[r].stream = "open") ~> (req[r].stream \in {"closed", "errored"})

----------------------------------------------------------------------------
(* Properties of the usage log *)

\* request r issues its insert into usage_logs
LogStep(r) ==
    /\ ~(req[r].logged \/ req[r].logFailed)
    /\ req'[r].logged \/ req'[r].logFailed

\* C25. A usage-log failure is swallowed: the step in which a request
\* issues its usage-log insert leaves the request answered 200 with its
\* stream open or closed, its upstream call successful, its charge in place
\* and the ledger as it was, whether the insert succeeds or fails; and the
\* request does from then on what it would have done had the insert
\* succeeded.
C25_LogFailureSwallowed ==
    [][ \A r \in Reqs :
          /\ LogStep(r)
             => /\ req'[r].pc = "done"
                /\ req'[r].status = 200
                /\ req'[r].upstream = "ok"
                /\ req'[r].stream = (IF handler = H_DEBUG THEN "closed" ELSE "open")
                /\ req'[r].charged = req[r].charged
                /\ ~req'[r].rolledBack
                /\ store' = store
          /\ (req[r].logFailed /\ req[r].stream = "open")
             => req'[r].stream \in {"open", "closed"} ]_vars

\* a request whose usage-log insert failed was charged and served, and its
\* stream was closed after [DONE]
C25_Witness ==
    \E r \in Reqs :
      /\ req[r].logFailed
      /\ ~req[r].logged
      /\ Served(r)
      /\ req[r].charged
      /\ req[r].stream = "closed"
      /\ req[r].out[Len(req[r].out)] = DoneEvent

----------------------------------------------------------------------------
(* Properties of the system message *)

\* C26. Context truncation: the context text embedded in a system message
\* is the prefix of the input of length min(len, 12000) for a full-page
\* context and min(len, 8000) for a selection (20,000 -> 12,000;
\* 9,000 -> 8,000; shorter contexts unchanged).
C26_ContextTruncation ==
    \A r \in Reqs :
      req[r].embedded # NULL
      => req[r].embedded =
           IF req[r].contextType = "selection"
           THEN (IF req[r].contextLen < 8000 THEN req[r].contextLen ELSE 8000)
           ELSE (IF req[r].contextLen < 12000 THEN req[r].contextLen ELSE 12000)

----------------------------------------------------------------------------
(* Properties of the rollback *)

\* C29. A failed rollback does not change the response: the response the
\* catch block returns after an upstream failure is the upstream error,
\* status 500, whether its compensating update succeeded or failed; when
\* it failed the row is left as it was.
C29_RollbackFailureSameResponse ==
    [][ \A r \in Reqs :
          (req[r].pc = "rollback" /\ req'[r].pc # "rollback")
          => /\ req'[r].pc = "done"
             /\ req'[r].status = 500
             /\ req'[r].code = ""
             /\ req'[r].upstream = "failed"
             /\ req'[r].out = <<>>
             /\ req[r].rollbackOutcome = "failed"
                => (store' = store /\ ~req'[r].rolledBack) ]_vars

\* a charged request failed upstream, its rollback failed as well, it was
\* answered 500 and the credit is still taken
C29_Witness ==
    \E r \in Reqs :
      /\ Terminal(r)
      /\ req[r].rollbackOutcome = "failed"
      /\ req[r].upstream = "failed"
      /\ req[r].charged
      /\ ~req[r].rolledBack
      /\ req[r].status = 500
      /\ Start.plan_type = "free"
      /\ Ledger.credits_balance = Start.credits_balance - 1

\* the requests that reached the upstream and whose charge was not undone
Kept == {r \in Reqs : req[r].forwarded /\ ~req[r].rolledBack}

\* C30. Quota conservation: on a trial account created with c credits and
\* receiving no webhook event, the requests forwarded upstream and not
\* rolled back never number more than c, and once no request is in flight
\* credits_balance is c minus their number.
C30_QuotaConservation ==
    LET c == Start.credits_balance
    IN  Start.plan_type = "free"
        => /\ Cardinality(Kept) <= c
           /\ Quiet => Ledger.credits_balance = c - Cardinality(Kept)

----------------------------------------------------------------------------
(* Properties of the table *)

\* the accounts whose row the step changes
Written == {a \in AllAccounts : store'[a] # store[a]}

\* C32. Account isolation: a step of a request authenticated as account A
\* (its row creation, charge, reset or rollback) and a webhook event
\* resolved to account A change the row of no other account.
C32_AccountIsolation ==
    [][ /\ \A r \in Reqs : req'[r] # req[r] => Written \subseteq {Acct(r)}
        /\ \A k \in Calls :
              HookStep(k) => Written \subseteq {hook'[k].account} ]_vars

\* a request of one account was charged and the cancellation of that
\* account's subscription was written to its row, while the other account
\* has the row it started with
C32_Witness ==
    \E r \in Reqs :
      /\ Terminal(r)
      /\ req[r].charged
      /\ \E k \in Calls : /\ hook[k].type = "customer.subscription.deleted"
                           /\ hook[k].account = Acct(r)
                           /\ hook[k].status = 200
      /\ store[Acct(r)].subscription_status = "cancelled"
      /\ \A b \in AllAccounts \ {Acct(r)} :
            store[b] = initial[b] /\ store[b].exists

----------------------------------------------------------------------------
(* Properties of the client *)

\* the texts written into the request w
Carried(w) == {w.headers[i] : i \in 1..Len(w.headers)} \cup {w.model}

\* C28. The user's own key is never sent to the project's servers: no
\* request issued by proxyChatRequest carries the saved key, and when a key
\* is passed to streamChatResponse the only call it makes is the direct one
\* to the upstream, never the proxy.
C28_KeyNeverSentToProxy ==
    \A r \in Reqs :
      /\ (req[r].route = "proxy" /\ req[r].storedKey # "")
         => req[r].storedKey \notin Carried(req[r].wire)
      /\ req[r].apiKey # ""
         => /\ req[r].route \in {"none", "refused", "direct"}
            /\ req[r].wire = NoFetch

\* a signed-in user with a saved key that was not passed on went through
\* the proxy, and a user whose key was passed went to the upstream directly
C28_Witness ==
    /\ \E r \in Reqs : /\ req[r].route = "proxy"
                        /\ req[r].storedKey # ""
                        /\ req[r].token \in Carried(req[r].wire)
    /\ \E r \in Reqs : req[r].route = "direct" /\ req[r].apiKey # ""

----------------------------------------------------------------------------
(* Properties of the reader *)

\* the positions of the terminal callbacks among the callbacks cs
Terminals(cs) == {i \in 1..Len(cs) : cs[i].cb \in {"onComplete", "onError"}}

\* C34. A call of proxyChatRequest invokes at most one terminal callback
\* (onComplete or onError) and no callback after it, and when it is over
\* it has invoked exactly one: without a session, on a status that is not
\* 2xx, without a body, on a stream with or without [DONE], and on a
\* thrown error.
C34_OneTerminalCallback ==
    \A r \in Reqs :
      LET c == req[r].call IN
        /\ Cardinality(Terminals(c.calls)) <= 1
        /\ Terminals(c.calls) \subseteq {Len(c.calls)}
        /\ c.pc \in {"returned", "rejected"}
             <=> Cardinality(Terminals(c.calls)) = 1

RECURSIVE ContentBeforeDone(_)
\* the content fragments of the events es that precede [DONE]
ContentBeforeDone(es) ==
    IF es = <<>> \/ Head(es) = DoneEvent THEN <<>>
    ELSE (IF Head(es).type = "content" THEN <<Head(es).data>> ELSE <<>>)
         \o ContentBeforeDone(Tail(es))

RECURSIVE ChunkArgs(_)
\* the arguments of the onChunk calls among the callbacks cs, in order
ChunkArgs(cs) ==
    IF cs = <<>> THEN <<>>
    ELSE (IF Head(cs).cb = "onChunk" THEN <<Head(cs).arg>> ELSE <<>>)
         \o ChunkArgs(Tail(cs))

IsPrefix(s, t) == Len(s) <= Len(t) /\ s = SubSeq(t, 1, Len(s))

\* C35. The parsing does not depend on how the bytes are split into reads:
\* whatever the reads, the onChunk arguments are a prefix of the content
\* fragments the server emitted before [DONE], all of them once onComplete
\* was invoked, and an event without content (the debug event) yields no
\* onChunk.
C35_SplitIndependentParsing ==
    \A r \in Reqs :
      LET c == req[r].call
          args == ChunkArgs(c.calls)
      IN  /\ IsPrefix(args, ContentBeforeDone(c.sent))
          /\ (c.calls # <<>> /\ c.calls[Len(c.calls)] = OnComplete)
             => args = ContentBeforeDone(c.sent)

\* a read of the debug version's stream ended inside the second content
\* event: the first fragment was handed over and the cut line is kept
C35_Witness ==
    \E r \in Reqs :
      LET c == req[r].call IN
        /\ c.sent = <<ContentEvent("a"), ContentEvent("b"), DebugEvent, DoneEvent>>
        /\ c.pc = "reading"
        /\ c.buffer = <<"data:", " ", "{", "content">>
        /\ c.calls = <<OnChunk("a")>>

----------------------------------------------------------------------------
(* Properties of the local trial *)

\* C36. Client trial gate: a call of a user without a license whose local
\* trial has 0 requests left is answered LimitReachedError and makes no
\* upstream or proxy request; a response that completes for a user without
\* a license raises the local usage count by exactly 1, and a call that
\* ends in an error leaves the count as it was.
C36_ClientTrialGate ==
    [][ \A r \in Reqs :
          LET q == req[r] IN
          /\ ( /\ q.route = "none" /\ req'[r].route # "none"
                /\ ~q.trialInfo.hasLicense
                /\ q.trialInfo.remaining = 0 )
             => /\ req'[r].route = "refused"
                /\ req'[r].outcome = "LimitReachedError"
                /\ req'[r].wire = NoFetch
                /\ local' = local
          /\ ( /\ q.outcome = "none" /\ req'[r].outcome = "complete"
                /\ ~q.trialInfo.hasLicense )
             => local'.usageCount = OrZero(local.usageCount) + 1
          /\ (q.outcome = "none" /\ req'[r].outcome \notin {"none", "complete"})
             => local' = local ]_vars

\* C37. When syncSubscriptionFromServer returns after it fetched the row of
\* a free account whose credits_balance is c, 0 <= c <= TRIAL_LIMIT, the
\* trial info it returns has hasLicense = false, remaining = c, and
\* isTrialExpired exactly when c = 0; when it returns after it fetched the
\* row of an active pro_subscription or byok_license account the info has
\* hasLicense = true, and no step of such a call changes the local usage
\* count.
C37_SyncFromServer ==
    [][ \A r \in Reqs :
          LET y == req[r].sync
              z == req'[r].sync
          IN  /\ (y.pc # "done" /\ z.pc = "done" /\ z.sub.exists) =>
                    /\ ( /\ z.sub.plan_type = "free"
                          /\ z.sub.credits_balance \in 0..TRIAL_LIMIT )
                       => /\ ~z.info.hasLicense
                          /\ z.info.remaining = z.sub.credits_balance
                          /\ z.info.isTrialExpired <=> (z.sub.credits_balance = 0)
                    /\ IsActive(z.sub) => z.info.hasLicense
              /\ (z # y /\ IsActive(z.sub))
                    => local'.usageCount = local.usageCount ]_vars

----------------------------------------------------------------------------
(* Properties of sendMessageToActiveTab *)

\* the send attempts of call y are within its limit, each but the last ended
\* in a content-script-not-ready error, and a call that has returned has a
\* result that fits them
SendWithinLimit(y) ==
    /\ Len(y.log) <= y.maxRetries + 1
    /\ \A i \in 1..(Len(y.log) - 1) : IsNotReady(y.log[i])
    /\ ( \/ y.query = "throws" \/ ~y.activeTab.id
         \/ IsRestricted(y.activeTab.url)
         \/ y.activeTab.status # "complete" ) => y.log = <<>>
    /\ y.pc = "done" =>
          /\ y.result.success <=> (y.log # <<>> /\ y.log[Len(y.log)] = "response")
          /\ ( /\ Len(y.log) = y.maxRetries + 1
                /\ \A i \in 1..Len(y.log) : IsNotReady(y.log[i]) )
             => (~y.result.success /\ y.result.shouldRetry)

\* C38. sendMessageToActiveTab always returns a result and never throws: it
\* makes at most maxRetries + 1 send attempts, retries only after a
\* content-script-not-ready error, makes no attempt for a restricted URL or
\* a tab that is still loading, and returns shouldRetry = true when its
\* attempts are exhausted.
C38_SendMessageTerminates ==
    /\ [](\A r \in Reqs : SendWithinLimit(req[r].send))
    /\ \A r \in Reqs : (req[r].send.pc = "idle") ~> (req[r].send.pc = "done")

\* a call with the default limit whose four attempts all found the content
\* script not ready
C38_Witness ==
    \E r \in Reqs :
        LET y == req[r].send IN
        /\ y.pc = "done"
        /\ y.maxRetries = DEFAULT_MAX_RETRIES
        /\ y.log = <<"not_ready", "not_ready", "not_ready", "not_ready">>
        /\ y.result = Result(FALSE, "Content script not ready. Try refreshing the page.",
                             TRUE, FALSE)

====
